---- MODULE Spec2Model ----
(***************************************************************************)
(* Model of the tile-parallel voxel ray tracer: Renderer (render_frame,    *)
(* set_scene, set_camera), the shading kernel it runs per pixel, the       *)
(* day/night lighting model and the output image.                          *)
(*                                                                         *)
(* f64 values are modelled in fixed point: an integer n stands for n / FP. *)
(* NaN and the infinities are three integers outside the finite range.     *)
(* A Vec3 / Color is a triple <<x, y, z>>.  Option<T> is a sequence: <<>>  *)
(* for None and <<v>> for Some(v).                                         *)
(***************************************************************************)
EXTENDS Integers, Sequences, FiniteSets, TLC

(* ---------------------------------------------------------------- f64 -- *)

\* resolution of the fixed-point model of f64: one unit is 1 / FP
FP == 100
\* f64::NAN, f64::INFINITY and f64::NEG_INFINITY
NaN == 2000000000
PosInf == 1999999999
NegInf == -1999999999

IsFinite(a) == a > NegInf /\ a < PosInf

Abs(a) == IF a < 0 THEN -a ELSE a
Min2(a, b) == IF a < b THEN a ELSE b
Max2(a, b) == IF a > b THEN a ELSE b
Sign(a) == IF a < 0 THEN -1 ELSE IF a > 0 THEN 1 ELSE 0

\* integer quotient rounded towards zero
Trunc(n, d) == IF (n >= 0) = (d > 0) THEN Abs(n) \div Abs(d) ELSE -(Abs(n) \div Abs(d))
\* a * b and a / b of two finite f64 values, rounded to the nearest
\* representable value as f64 rounds a result
fmul(a, b) == (2 * a * b + FP) \div (2 * FP)
fdiv(a, b) ==
  IF b > 0 THEN (a \div b) * FP + (2 * (a % b) * FP + b) \div (2 * b)
  ELSE ((-a) \div (-b)) * FP + (2 * ((-a) % (-b)) * FP - b) \div (-2 * b)

\* a Rust `let`: e is evaluated where the binding is written, then F(value)
Bind(e, F(_)) == CHOOSE r \in { F(x) : x \in {e} } : TRUE

\* f64::max and f64::min: a NaN operand is ignored
f64_max(a, b) == IF a = NaN THEN b ELSE IF b = NaN THEN a ELSE Max2(a, b)
f64_min(a, b) == IF a = NaN THEN b ELSE IF b = NaN THEN a ELSE Min2(a, b)
\* f64::clamp on a finite value
f64_clamp(a, lo, hi) == IF a < lo THEN lo ELSE IF a > hi THEN hi ELSE a

RECURSIVE SqrtIter(_, _)
SqrtIter(n, g) ==
  LET g2 == (g + n \div g) \div 2
  IN IF g2 >= g THEN g ELSE SqrtIter(n, g2)
\* floor of the square root of a natural number (Newton iteration)
ISqrt(n) ==
  IF n <= 0 THEN 0
  ELSE SqrtIter(n, IF n < 100 THEN 10 ELSE IF n < 10000 THEN 100
                   ELSE IF n < 1000000 THEN 1000 ELSE IF n < 100000000 THEN 10000
                   ELSE 46341)
\* f64::sqrt of a finite non-negative fixed-point value
f64_sqrt(a) == ISqrt(a * FP)

\* f64::sin and f64::cos of an angle given in whole degrees (Bhaskara's
\* rational approximation, exact at 0, 30, 90, 150 and 180 degrees)
SinHalf(d) == ((4 * d * (180 - d)) * FP) \div (40500 - d * (180 - d))
SinDeg(deg) ==
  LET d == deg % 360
  IN IF d <= 180 THEN SinHalf(d) ELSE -SinHalf(d - 180)
CosDeg(deg) == SinDeg(deg + 90)

\* x.powf(1.0 / 2.2) for x in [0, 1], tabulated at the model's resolution
Gamma22Table ==
  << 0, 12, 16, 20, 23, 25, 27, 29, 31, 33, 35, 36, 38, 39, 40, 42, 43, 44, 45, 47,
     48, 49, 50, 51, 52, 53, 54, 55, 56, 56, 57, 58, 59, 60, 61, 62, 62, 63, 64, 65,
     65, 66, 67, 68, 68, 69, 70, 70, 71, 72, 72, 73, 74, 74, 75, 76, 76, 77, 78, 78,
     79, 79, 80, 81, 81, 82, 82, 83, 83, 84, 85, 85, 86, 86, 87, 87, 88, 88, 89, 89,
     90, 90, 91, 91, 92, 92, 93, 93, 94, 94, 95, 95, 96, 96, 97, 97, 98, 98, 99, 99,
     100 >>
\* x.powf(0.7) for x in [0, 1], tabulated at the model's resolution
Pow07Table ==
  << 0, 3, 6, 8, 10, 12, 13, 15, 17, 18, 19, 21, 22, 23, 25, 26, 27, 28, 30, 31,
     32, 33, 34, 35, 36, 37, 38, 39, 41, 42, 43, 44, 45, 46, 46, 47, 48, 49, 50, 51,
     52, 53, 54, 55, 56, 57, 58, 58, 59, 60, 61, 62, 63, 64, 64, 65, 66, 67, 68, 69,
     69, 70, 71, 72, 73, 73, 74, 75, 76, 77, 77, 78, 79, 80, 80, 81, 82, 83, 84, 84,
     85, 86, 87, 87, 88, 89, 89, 90, 91, 92, 92, 93, 94, 95, 95, 96, 97, 97, 98, 99,
     100 >>

\* f64::powf(x, 1/2.2): NaN for NaN and for a negative base, the table on
\* [0, 1], and 1 / (1/x).powf(1/2.2) above 1
powf_gamma(x) ==
  IF x = NaN \/ x = NegInf THEN NaN
  ELSE IF x = PosInf THEN PosInf
  ELSE IF x < 0 THEN NaN
  ELSE IF x <= FP THEN Gamma22Table[x + 1]
  ELSE (FP * FP) \div Gamma22Table[Max2((FP * FP) \div x, 1) + 1]

(* --------------------------------------------------------------- Vec3 -- *)

Vec3(x, y, z) == <<x, y, z>>
VZero == Vec3(0, 0, 0)
VAdd(a, b) == <<a[1] + b[1], a[2] + b[2], a[3] + b[3]>>
VSub(a, b) == <<a[1] - b[1], a[2] - b[2], a[3] - b[3]>>
VScale(a, s) == <<fmul(a[1], s), fmul(a[2], s), fmul(a[3], s)>>
VDivS(a, s) == <<fdiv(a[1], s), fdiv(a[2], s), fdiv(a[3], s)>>
VNeg(a) == <<-a[1], -a[2], -a[3]>>
dot(a, b) == fmul(a[1], b[1]) + fmul(a[2], b[2]) + fmul(a[3], b[3])
cross(a, b) ==
  << fmul(a[2], b[3]) - fmul(a[3], b[2]),
     fmul(a[3], b[1]) - fmul(a[1], b[3]),
     fmul(a[1], b[2]) - fmul(a[2], b[1]) >>
length(a) == ISqrt(a[1] * a[1] + a[2] * a[2] + a[3] * a[3])
normalized(a) ==
  Bind(a, LAMBDA v : Bind(length(v), LAMBDA l : IF l > 0 THEN VDivS(v, l) ELSE v))

(* ------------------------------------------------ tone map and gamma -- *)

clamp01(v) == <<f64_clamp(v[1], 0, FP), f64_clamp(v[2], 0, FP), f64_clamp(v[3], 0, FP)>>
hadamard(a, b) == <<fmul(a[1], b[1]), fmul(a[2], b[2]), fmul(a[3], b[3])>>

\* (c * (a*c + b)) / (c * (c1*c + d) + e) in f64: NaN in gives NaN, an
\* infinite c gives inf / inf = NaN
aces_ratio(c) ==
  IF ~IsFinite(c) THEN NaN
  ELSE LET num == fmul(c, fmul(251, c) + 3)
           den == fmul(c, fmul(243, c) + 59) + 14
       IN IF den = 0 THEN (IF num = 0 THEN NaN ELSE IF num > 0 THEN PosInf ELSE NegInf)
          ELSE fdiv(num, den)

aces_channel_nomin(c) == f64_max(aces_ratio(c), 0)

\* (..).max(0.0).min(1.0)
aces_channel(c) == f64_min(f64_max(aces_ratio(c), 0), FP)

tonemap_aces(c) == <<aces_channel(c[1]), aces_channel(c[2]), aces_channel(c[3])>>

gamma22(c) == <<powf_gamma(c[1]), powf_gamma(c[2]), powf_gamma(c[3])>>

(* ----------------------------------------------------------- DayNight -- *)

\* phase = (t / cycle_duration) * TAU with cycle_duration = 120, in degrees
cycle_duration == 120
sun_phase_deg(t) == (t * 360) \div cycle_duration

sun_direction_unfloored(t) ==
  normalized(Vec3(CosDeg(sun_phase_deg(t)), SinDeg(sun_phase_deg(t)), 25))

sun_direction(t) ==
  LET y == SinDeg(sun_phase_deg(t))
      x == CosDeg(sun_phase_deg(t))
  IN normalized(Vec3(x, f64_max(y, 2), 25))

sun_intensity(t) ==
  LET elev == f64_max(sun_direction(t)[2], 0)
  IN Pow07Table[f64_clamp(elev, 0, FP) + 1]

sun_color(t) ==
  LET elev == sun_direction(t)[2]
      warm == Vec3(100, 62, 22)
      noon == Vec3(100, 96, 90)
      k == f64_clamp(elev, 0, FP)
  IN IF elev <= 0 THEN VZero
     ELSE VAdd(VScale(warm, FP - k), VScale(noon, k))

sky_color(t) ==
  LET elev == sun_direction(t)[2]
      zenith_day == Vec3(20, 45, 95)
      horizon_day == Vec3(65, 80, 100)
      zenith_night == Vec3(2, 3, 8)
      horizon_tw == Vec3(35, 20, 40)
      f_day == f64_clamp(elev, 0, FP)
      base == VAdd(VScale(zenith_day, 60), VScale(horizon_day, 40))
      warm_tint == Vec3(100, 55, 25)
      horizon_mix == fdiv(f64_clamp(60 - elev, 0, 60), 60)
  IN IF elev <= -5 THEN VAdd(VScale(zenith_night, 80), VScale(horizon_tw, 20))
     ELSE VAdd(VScale(base, FP - fmul(25, horizon_mix)),
               VScale(VScale(warm_tint, fmul(15, horizon_mix)), f_day))

ambient_level_at_jump(elev) ==
  IF elev < -20 THEN 6
  ELSE IF elev < 0 THEN 6 + fmul(fdiv(elev + 20, 20), 10)
  ELSE 20 + fmul(elev, 12)

\* ambient_level as a function of the elevation it reads
ambient_level_at(elev) ==
  IF elev < -20 THEN 6
  ELSE IF elev < 0 THEN 6 + fmul(fdiv(elev + 20, 20), 10)
  ELSE 16 + fmul(elev, 12)

ambient_level(t) == ambient_level_at(sun_direction(t)[2])

(* ---------------------------------------------------------- Ray, box -- *)

\* the bounds make_primary_ray and the shadow probes pass: 1e6
T_MAX_PRIMARY == 1000000 * FP
\* saturation of a product with the substituted reciprocal 1e8
T_HUGE == 1900000000
\* safe_inv's substitute 1.0e8, in thousands
SAFE_INV_BIG == 100000

\* Ray::new: direction normalised, tmin = 1e-4 (below the model's
\* resolution: 0), tmax = 1e9 (saturated)
Ray_new(o, d) ==
  Bind(normalized(d), LAMBDA nd : [o |-> o, d |-> nd, tmin |-> 0, tmax |-> T_HUGE])

\* delta * safe_inv(d): for |d| < 1e-8 the reciprocal is replaced by 1e8
mul_safe_inv(delta, d) ==
  IF d = 0
    THEN IF Abs(delta) > (T_HUGE \div 1000) \div SAFE_INV_BIG THEN Sign(delta) * T_HUGE
         ELSE delta * SAFE_INV_BIG * 1000
    ELSE fdiv(delta, d)

slab_unswapped(lo, hi, o, d) == <<mul_safe_inv(lo - o, d), mul_safe_inv(hi - o, d)>>

\* one slab of ray_box_intersect: <<near, far>> after the swap
slab(lo, hi, o, d) ==
  LET a == mul_safe_inv(lo - o, d)
      b == mul_safe_inv(hi - o, d)
  IN IF a > b THEN <<b, a>> ELSE <<a, b>>

\* Option<(f64, f64)>
ray_box_intersect(ray, bmin, bmax, max_t) ==
  Bind(slab(bmin[1], bmax[1], ray.o[1], ray.d[1]), LAMBDA sx :
  Bind(slab(bmin[2], bmax[2], ray.o[2], ray.d[2]), LAMBDA sy :
  Bind(slab(bmin[3], bmax[3], ray.o[3], ray.d[3]), LAMBDA sz :
    IF sx[1] > sy[2] \/ sy[1] > sx[2] THEN <<>>
    ELSE LET t1 == Max2(sx[1], sy[1])
             t2 == Min2(sx[2], sy[2])
         IN IF t1 > sz[2] \/ sz[1] > t2 THEN <<>>
            ELSE LET tmin == Max2(t1, sz[1])
                     tmax == Min2(t2, sz[2])
                 IN IF tmin < ray.tmin \/ tmin > max_t THEN <<>>
                    ELSE << <<tmin, tmax>> >>)))

\* the loop over the voxels from the i-th on, which returns true at the
\* first box entered strictly between ray.tmin and upper
occlusion_scan(ray, voxels, i, max_t, upper) ==
  \E j \in i..Len(voxels) :
    Bind(ray_box_intersect(ray, voxels[j].min, voxels[j].max, max_t), LAMBDA r :
      r # <<>> /\ r[1][1] > ray.tmin /\ r[1][1] < upper)

occlusion_ray_hit_unbounded(ray, voxels, max_t) ==
  occlusion_scan(ray, voxels, 1, T_MAX_PRIMARY, T_MAX_PRIMARY)

occlusion_ray_hit(ray, voxels, max_t) == occlusion_scan(ray, voxels, 1, max_t, max_t)
unoccluded_ray(ray, voxels, max_t) == ~occlusion_ray_hit(ray, voxels, max_t)
blocked_along(ray, voxels, tmax) ==
  LET shadow == [ray EXCEPT !.tmax = tmax]
  IN occlusion_scan(shadow, voxels, 1, tmax, shadow.tmax)

ao_dirs == << Vec3(0, 100, 0), Vec3(50, 100, 0), Vec3(-50, 100, 0),
              Vec3(0, 100, 50), Vec3(0, 100, -50) >>

\* the i-th probe: Ray::new(p + n * eps, dir); eps = 1e-3 is rounded up to
\* one unit of the model's resolution, so that the origin lies off the face
ao_ray(p, n, i) == Ray_new(VAdd(p, VScale(n, 1)), normalized(ao_dirs[i]))

ao_term(p, n, voxels) ==
  LET occ == Cardinality({ i \in 1..Len(ao_dirs) :
                 Bind(ao_ray(p, n, i), LAMBDA r : occlusion_ray_hit(r, voxels, FP)) })
      occ_norm == fdiv(occ * FP, Len(ao_dirs) * FP)
  IN f64_clamp(FP - fmul(35, occ_norm), 40, FP)

sun_pts == << <<0, 0>>, <<60, 30>>, <<0, -60>>, <<-60, 30>>,
              <<60, -30>>, <<0, 60>>, <<-60, -30>> >>

\* spread = 0.008: the offsets ux * spread are rounded at the model's resolution
sun_sample_dir(sun_dir, i) ==
  LET pt == sun_pts[(i % Len(sun_pts)) + 1]
      ux == Trunc(pt[1] * 8, 1000)
      uy == Trunc(pt[2] * 8, 1000)
  IN Bind(normalized(sun_dir), LAMBDA n :
     Bind(IF Abs(n[2]) < 90 THEN Vec3(0, 100, 0) ELSE Vec3(100, 0, 0), LAMBDA up :
     Bind(normalized(cross(up, n)), LAMBDA t :
     Bind(cross(n, t), LAMBDA b :
       normalized(VAdd(n, VAdd(VScale(t, ux), VScale(b, uy))))))))

voxel_normal_at_last_tie(p, bmin, bmax) ==
  LET dxmin == Abs(p[1] - bmin[1])
      dxmax == Abs(p[1] - bmax[1])
      dymin == Abs(p[2] - bmin[2])
      dymax == Abs(p[2] - bmax[2])
      dzmin == Abs(p[3] - bmin[3])
      dzmax == Abs(p[3] - bmax[3])
      s1 == IF dxmax <= dxmin THEN <<dxmax, <<100, 0, 0>> >> ELSE <<dxmin, <<-100, 0, 0>> >>
      s2 == IF dymin <= s1[1] THEN <<dymin, <<0, -100, 0>> >> ELSE s1
      s3 == IF dymax <= s2[1] THEN <<dymax, <<0, 100, 0>> >> ELSE s2
      s4 == IF dzmin <= s3[1] THEN <<dzmin, <<0, 0, -100>> >> ELSE s3
      s5 == IF dzmax <= s4[1] THEN <<dzmax, <<0, 0, 100>> >> ELSE s4
  IN s5[2]

voxel_normal_at(p, bmin, bmax) ==
  LET dxmin == Abs(p[1] - bmin[1])
      dxmax == Abs(p[1] - bmax[1])
      dymin == Abs(p[2] - bmin[2])
      dymax == Abs(p[2] - bmax[2])
      dzmin == Abs(p[3] - bmin[3])
      dzmax == Abs(p[3] - bmax[3])
      s1 == IF dxmax < dxmin THEN <<dxmax, Vec3(100, 0, 0)>> ELSE <<dxmin, Vec3(-100, 0, 0)>>
      s2 == IF dymin < s1[1] THEN <<dymin, Vec3(0, -100, 0)>> ELSE s1
      s3 == IF dymax < s2[1] THEN <<dymax, Vec3(0, 100, 0)>> ELSE s2
      s4 == IF dzmin < s3[1] THEN <<dzmin, Vec3(0, 0, -100)>> ELSE s3
      s5 == IF dzmax < s4[1] THEN <<dzmax, Vec3(0, 0, 100)>> ELSE s4
  IN s5[2]

voxel_uv(bmin, bmax, p, n) ==
  IF Abs(n[1]) > Abs(n[2]) /\ Abs(n[1]) > Abs(n[3]) THEN <<p[3], p[2]>>
  ELSE IF Abs(n[2]) > Abs(n[3]) THEN <<p[1], p[3]>>
  ELSE <<p[1], p[2]>>

RECURSIVE trace_scan_last_wins(_, _, _, _, _)
trace_scan_last_wins(ray, voxels, i, closest_t, best) ==
  IF i > Len(voxels) THEN best
  ELSE LET v == voxels[i]
       IN Bind(ray_box_intersect(ray, v.min, v.max, closest_t), LAMBDA r :
            IF r # <<>> /\ r[1][1] <= closest_t /\ r[1][1] > ray.tmin
              THEN Bind(VAdd(ray.o, VScale(ray.d, r[1][1])), LAMBDA p :
                   Bind(<< [t |-> r[1][1], p |-> p, n |-> voxel_normal_at(p, v.min, v.max),
                            mat_id |-> v.mat_id, vmin |-> v.min, vmax |-> v.max] >>,
                        LAMBDA found : trace_scan_last_wins(ray, voxels, i + 1, r[1][1], found)))
              ELSE trace_scan_last_wins(ray, voxels, i + 1, closest_t, best))

\* the iterations lo..hi of the loop of trace_voxels, in their order, on
\* acc = <<closest_t, best>>
RECURSIVE trace_range(_, _, _, _, _)
trace_range(ray, voxels, lo, hi, acc) ==
  IF lo > hi THEN acc
  ELSE IF lo = hi
    THEN LET v == voxels[lo]
         IN Bind(ray_box_intersect(ray, v.min, v.max, acc[1]), LAMBDA r :
              IF r # <<>> /\ r[1][1] < acc[1] /\ r[1][1] > ray.tmin
                THEN LET t0 == r[1][1]
                     IN Bind(VAdd(ray.o, VScale(ray.d, t0)), LAMBDA p :
                          <<t0, << [t |-> t0, p |-> p, n |-> voxel_normal_at(p, v.min, v.max),
                                    mat_id |-> v.mat_id, vmin |-> v.min, vmax |-> v.max] >> >>)
                ELSE acc)
  ELSE Bind((lo + hi) \div 2, LAMBDA mid :
       Bind(trace_range(ray, voxels, lo, mid, acc), LAMBDA left :
         trace_range(ray, voxels, mid + 1, hi, left)))

\* the loop of trace_voxels from the i-th voxel on
trace_scan(ray, voxels, i, closest_t, best) ==
  trace_range(ray, voxels, i, Len(voxels), <<closest_t, best>>)[2]

\* Option<HitInfo>
trace_voxels(ray, voxels) == trace_scan(ray, voxels, 1, ray.tmax, <<>>)

(* ---------------------------------------------------------------- mesh -- *)

compute_face_normal_unnormalized(a, b, c) == cross(VSub(b, a), VSub(c, a))

compute_face_normal(a, b, c) == normalized(cross(VSub(b, a), VSub(c, a)))

\* an OBJ position index (raw: <<i>> for a token that parses as an integer,
\* <<>> otherwise) as a 0-based index into the len positions read so far
fix_idx(len, raw) ==
  IF raw = <<>> THEN <<>>
  ELSE IF raw[1] > 0 THEN (IF raw[1] - 1 < len THEN <<raw[1] - 1>> ELSE <<>>)
  ELSE IF raw[1] < 0 THEN (IF -raw[1] > len THEN <<>> ELSE <<len + raw[1]>>)
  ELSE <<>>

\* the loop of push_fan from k on: triangle v[0], v[k], v[k + 1], skipped
\* when its normal has no length
RECURSIVE push_fan_from(_, _, _, _, _)
push_fan_from(vs, tris, face_idx, mat_id, k) ==
  IF k > Len(face_idx) - 2 THEN tris
  ELSE LET v0 == vs[face_idx[1] + 1]
           v1 == vs[face_idx[k + 1] + 1]
           v2 == vs[face_idx[k + 2] + 1]
           n == cross(VSub(v1, v0), VSub(v2, v0))
           len == length(n)
       IN push_fan_from(vs,
            IF len <= 0 THEN tris
            ELSE Append(tris, [v0 |-> v0, v1 |-> v1, v2 |-> v2, n |-> VDivS(n, len),
                               mat_id |-> mat_id]),
            face_idx, mat_id, k + 1)

push_fan(vs, tris, face_idx, mat_id) ==
  IF Len(face_idx) < 3 THEN tris ELSE push_fan_from(vs, tris, face_idx, mat_id, 1)

\* the loop of load_obj_triangles over the lines of the file from line i on.
\* A line is [tag, xyz, idx]: tag "v" with the parsed coordinates (<<>> for
\* one that does not parse), tag "f" with the position indices of its tokens,
\* any other tag for a line that is ignored
RECURSIVE obj_lines(_, _, _, _, _, _, _)
obj_lines(lines, i, vs, tris, mat_id, scale, translate) ==
  IF i > Len(lines) THEN tris
  ELSE LET l == lines[i]
           coord(j) == IF l.xyz[j] = <<>> THEN 0 ELSE l.xyz[j][1]
           fixed == [j \in 1..Len(l.idx) |-> fix_idx(Len(vs), l.idx[j])]
           kept == SelectSeq(fixed, LAMBDA o : o # <<>>)
           face_idx == [j \in 1..Len(kept) |-> kept[j][1]]
       IN IF l.tag = "v"
            THEN obj_lines(lines, i + 1,
                   IF Len(l.xyz) >= 3
                     THEN Append(vs, VAdd(VScale(Vec3(coord(1), coord(2), coord(3)), scale),
                                          translate))
                     ELSE vs,
                   tris, mat_id, scale, translate)
          ELSE IF l.tag = "f"
            THEN obj_lines(lines, i + 1, vs,
                   IF Len(face_idx) >= 3 THEN push_fan(vs, tris, face_idx, mat_id) ELSE tris,
                   mat_id, scale, translate)
          ELSE obj_lines(lines, i + 1, vs, tris, mat_id, scale, translate)

load_obj_triangles_placeholder(file, mat_id, scale, translate) ==
  IF file = <<>>
    THEN << [v0 |-> translate, v1 |-> translate, v2 |-> translate, n |-> VZero,
             mat_id |-> mat_id] >>
  ELSE obj_lines(file[1], 1, <<>>, <<>>, mat_id, scale, translate)

\* file is what File::open(path) gives: <<>> for Err, <<lines>> for Ok
load_obj_triangles(file, mat_id, scale, translate) ==
  IF file = <<>> THEN <<>>
  ELSE obj_lines(file[1], 1, <<>>, <<>>, mat_id, scale, translate)

(* ------------------------------------------------- camera, textures -- *)

\* (fov * 0.5).tan() for a field of view in whole degrees
tan_half(fov_deg) == fdiv(SinDeg(fov_deg \div 2), CosDeg(fov_deg \div 2))

make_primary_ray(x, y, w, h, cam) ==
  LET aspect == fdiv(w * FP, h * FP)
      scale == tan_half(cam.fov_deg)
      px == fmul(fmul(2 * fdiv(x * FP + 50, w * FP) - FP, aspect), scale)
      py == fmul(FP - 2 * fdiv(y * FP + 50, h * FP), scale)
  IN Bind(normalized(VSub(cam.target, cam.eye)), LAMBDA forward :
     Bind(normalized(cross(forward, cam.up)), LAMBDA right :
     Bind(normalized(cross(right, forward)), LAMBDA up :
     Bind(normalized(VAdd(forward, VAdd(VScale(right, px), VScale(up, py)))), LAMBDA dir :
       [Ray_new(cam.eye, dir) EXCEPT !.tmin = 0, !.tmax = T_MAX_PRIMARY]))))

\* u.fract() moved into [0, 1)
fract01(u) == u % FP

\* Tex is [w, h, data]: data is the row-major RGB byte buffer
sample_tex_nearest(tex, u, v) ==
  LET x == f64_clamp(fmul(fract01(u), tex.w * FP) \div FP, 0, tex.w - 1)
      y == f64_clamp(fmul(fract01(v), tex.h * FP) \div FP, 0, tex.h - 1)
      idx == (y * tex.w + x) * 3
  IN Vec3((tex.data[idx + 1] * FP) \div 255,
          (tex.data[idx + 2] * FP) \div 255,
          (tex.data[idx + 3] * FP) \div 255)

\* Option<&Tex>
tex_for_mat(mat_id, cache) == IF mat_id < Len(cache) THEN cache[mat_id + 1] ELSE <<>>

dir_to_cube_uv_face0(d) == <<0, 50, 50>>

dir_to_cube_uv(d) ==
  LET ax == Abs(d[1])
      ay == Abs(d[2])
      az == Abs(d[3])
      f == IF ax >= ay /\ ax >= az
             THEN (IF d[1] > 0 THEN <<0, -d[3], -d[2], ax>> ELSE <<1, d[3], -d[2], ax>>)
           ELSE IF ay >= ax /\ ay >= az
             THEN (IF d[2] > 0 THEN <<2, d[1], d[3], ay>> ELSE <<3, d[1], -d[3], ay>>)
           ELSE IF d[3] > 0 THEN <<4, d[1], -d[2], az>>
           ELSE <<5, -d[1], -d[2], az>>
  IN <<f[1], fmul(50, fdiv(f[2], f[4]) + FP), fmul(50, fdiv(f[3], f[4]) + FP)>>

\* the vertical gradient of the fallback path and of a missing skybox face
sky_gradient(y, h, sky) ==
  LET v == fdiv(y * FP, Max2(h - 1, 1) * FP)
  IN Vec3(fmul(sky[1], FP - fmul(v, 30)), fmul(sky[2], FP - fmul(v, 30)), sky[3])

\* f64::acos by its expansion at 1, sqrt(2 (1 - x)); the kernel only compares
\* the angle with 0.008 and 0.10
acos_near1(dp) == f64_sqrt(2 * (FP - dp))

(* ----------------------------------------------------- shading kernel -- *)

\* sun term of a hit (renderer.rs 466-504); eps = 1e-4 is below the resolution
sun_term(L, hit, nrm, albedo, voxels) ==
  IF L.sun_intensity > 0
    THEN LET samples == 4
             lit(i) == Bind(sun_sample_dir(L.sun_dir, i), LAMBDA l :
                       Bind(f64_max(dot(nrm, l), 0), LAMBDA nl :
                         IF nl > 0 /\ Bind(Ray_new(hit.p, l), LAMBDA shadow :
                                         unoccluded_ray(shadow, voxels, T_MAX_PRIMARY))
                           THEN nl ELSE 0))
         IN Bind(lit(0), LAMBDA l0 : Bind(lit(1), LAMBDA l1 :
            Bind(lit(2), LAMBDA l2 : Bind(lit(3), LAMBDA l3 :
            Bind(fdiv(l0 + l1 + l2 + l3, samples * FP), LAMBDA sun_lit :
              VScale(hadamard(albedo, L.sun_color), fmul(sun_lit, L.sun_intensity)))))))
    ELSE VZero

ambient_term(L, nrm, albedo) ==
  LET ground_col == Vec3(8, 7, 6)
      k_hemi == f64_clamp(fmul(nrm[2], 50) + 50, 0, FP)
      hemi == VAdd(VScale(L.sky_color, k_hemi), VScale(ground_col, FP - k_hemi))
  IN VScale(hadamard(albedo, hemi), L.ambient_level)

\* x.powf(32.0), by five squarings
powf_32(x) ==
  Bind(fmul(x, x), LAMBDA x2 : Bind(fmul(x2, x2), LAMBDA x4 :
  Bind(fmul(x4, x4), LAMBDA x8 : Bind(fmul(x8, x8), LAMBDA x16 : fmul(x16, x16)))))

specular_term(L, ray, nrm, albedo) ==
  IF L.sun_intensity > 30
    THEN LET sun_vec == IF L.sun_dir[2] < 10 THEN <<L.sun_dir[1], 10, L.sun_dir[3]>>
                        ELSE L.sun_dir
         IN Bind(normalized(VNeg(ray.d)), LAMBDA view :
            Bind(normalized(VAdd(view, sun_vec)), LAMBDA half_vec :
            Bind(f64_max(dot(nrm, half_vec), 0), LAMBDA nh :
            Bind(fmul(powf_32(nh), 15), LAMBDA spec_factor :
              VScale(hadamard(L.sun_color, albedo), spec_factor)))))
    ELSE VZero

\* radians (fixed point) to whole degrees
rad_to_deg(r) == Trunc(r * 5730, FP * FP)

\* the contribution of one derived light (renderer.rs 552-594)
light_term(light, time, hit, nrm, albedo, voxels) ==
  Bind(VSub(light.pos, hit.p), LAMBDA to_l :
  Bind(length(to_l), LAMBDA dist :
  Bind(IF dist = 0 THEN VZero ELSE VDivS(to_l, dist), LAMBDA ldir :
  Bind(f64_max(dot(nrm, ldir), 0), LAMBDA nl :
     IF nl <= 0 THEN VZero
     ELSE IF Bind(Ray_new(hit.p, ldir), LAMBDA shadow : blocked_along(shadow, voxels, dist))
       THEN VZero
     ELSE LET max_range == 10 * FP
              falloff == f64_max(FP - f64_min(fdiv(dist, max_range), FP), 0)
              atten == fmul(falloff, falloff)
              phase == time * 6 * FP + light.pos[1] * 2 + light.pos[3] * 3
              flicker == f64_clamp(80 + fmul(20,
                             fmul(SinDeg(rad_to_deg(phase)),
                                  CosDeg(rad_to_deg(fmul(phase, 130))))), 60, 120)
          IN VScale(hadamard(albedo, VScale(light.color, fmul(light.intensity, flicker))),
                    fmul(fmul(nl, atten), 80))))))

RECURSIVE lights_sum(_, _, _, _, _, _, _)
lights_sum(lights, i, time, hit, nrm, albedo, voxels) ==
  IF i > Len(lights) THEN VZero
  ELSE Bind(light_term(lights[i], time, hit, nrm, albedo, voxels), LAMBDA first :
         VAdd(first, lights_sum(lights, i + 1, time, hit, nrm, albedo, voxels)))

\* the albedo of a hit: the material's, clamped, times the texel of its
\* texture if one is loaded (renderer.rs 441-462)
hit_albedo(S, L, hit) ==
  LET mat == S.scene.materials[hit.mat_id + 1]
      uv0 == voxel_uv(hit.vmin, hit.vmax, hit.p, hit.n)
      u1 == fmul(uv0[1], mat.uv_scale)
      v1 == fmul(uv0[2], mat.uv_scale)
      u == IF mat.animated_uv THEN fract01(u1 + fmul(L.time * FP, 20)) ELSE u1
      v == IF mat.animated_uv THEN fract01(v1) ELSE v1
      tex == tex_for_mat(hit.mat_id, S.tex_cache)
  IN IF tex # <<>>
       THEN clamp01(hadamard(clamp01(mat.albedo), sample_tex_nearest(tex[1], u, v)))
       ELSE clamp01(mat.albedo)

no_floor(albedo, amb) == VZero

\* albedo * min_light with min_light = ambient_level_local * 0.3
light_floor(albedo, amb) == VScale(albedo, fmul(amb, 30))

\* colour of one sample whose primary ray hit (renderer.rs 439-604);
\* the material index is in range
shade_hit(S, L, ray, hit) ==
  LET voxels == S.scene.voxels
  IN Bind(hit_albedo(S, L, hit), LAMBDA albedo :
     Bind(normalized(hit.n), LAMBDA nrm :
     Bind(ambient_term(L, nrm, albedo), LAMBDA ambient :
     Bind(sun_term(L, hit, nrm, albedo, voxels), LAMBDA sun_contribution :
     Bind(ao_term(hit.p, nrm, voxels), LAMBDA ao :
     Bind(specular_term(L, ray, nrm, albedo), LAMBDA specular :
     Bind(lights_sum(S.lights, 1, L.time, hit, nrm, albedo, voxels), LAMBDA lsum :
     Bind(VScale(VAdd(VAdd(ambient, sun_contribution), VAdd(lsum, specular)), ao), LAMBDA c :
       VAdd(c, light_floor(albedo, L.ambient_level))))))))))

\* the procedural sky of a miss (renderer.rs 608-645)
procedural_sky(L, ray) ==
  LET up == f64_clamp(ray.d[2], -FP, FP)
      base == L.sky_color
      t_h == f64_clamp(fmul(up + FP, 50), 0, FP)
      horizon == Vec3(fmul(base[1], 105), fmul(base[2], 105), fmul(base[3], 105))
      zenith == Vec3(fmul(base[1], 85), fmul(base[2], 90), fmul(base[3], FP))
      sky == VAdd(VScale(zenith, t_h), VScale(horizon, FP - t_h))
      dp == f64_clamp(dot(ray.d, L.sun_dir), -FP, FP)
      ang == acos_near1(dp)
      sun_disk == Trunc(f64_max(8 - ang * 10, 0) * 80, 10)
      sun_glow == fmul(f64_max(10 - ang, 0), 150)
  IN VAdd(sky, VScale(VScale(L.sun_color, sun_disk + sun_glow), L.sun_intensity))

\* colour of one sample whose primary ray missed (renderer.rs 606-668)
shade_miss(S, L, ray, y, h) ==
  IF S.use_procedural_sky
    THEN procedural_sky(L, ray)
    ELSE LET f == dir_to_cube_uv(ray.d)
             face == S.skybox_cache[f[1] + 1]
         IN IF face # <<>> THEN sample_tex_nearest(face[1], f[2], f[3])
            ELSE sky_gradient(y, h, L.sky_color)

(* -------------------------------------------------------------- inputs -- *)

\* bounds of the model
MaxSpp == 2
MaxCalls == 4
MaxTilesX == 2

Material(albedo, emissive) ==
  [albedo |-> albedo, emissive |-> emissive, texture_path |-> <<>>,
   uv_scale |-> FP, animated_uv |-> FALSE]

Voxel_next_material(bmin, bmax, mat_id) == [min |-> bmin, max |-> bmax, mat_id |-> mat_id + 1]

Voxel(bmin, bmax, mat_id) == [min |-> bmin, max |-> bmax, mat_id |-> mat_id]

stone == Material(Vec3(72, 72, 74), VZero)
torch == Material(Vec3(100, 85, 45), Vec3(400, 260, 120))
water == [Material(Vec3(25, 45, 95), VZero) EXCEPT
            !.texture_path = <<"assets/textures/water.png">>, !.animated_uv = TRUE]

NoSkybox == <<<<>>, <<>>, <<>>, <<>>, <<>>, <<>>>>

\* a unit box at the origin beside an emissive box, and a textured slab
\* whose texture file is absent; a triangle between the cameras and the
\* boxes and a portal in front of the first box
GoodScene ==
  [materials |-> <<stone, torch, water>>,
   voxels |-> << Voxel(Vec3(-50, -50, -50), Vec3(50, 50, 50), 0),
                 Voxel(Vec3(100, -50, -50), Vec3(200, 50, 50), 1),
                 Voxel(Vec3(-300, -150, -300), Vec3(300, -50, 300), 2) >>,
   triangles |-> << [v0 |-> Vec3(-400, -400, -200), v1 |-> Vec3(400, -400, -200),
                     v2 |-> Vec3(0, 400, -200), n |-> Vec3(0, 0, 100), mat_id |-> 1] >>,
   skybox |-> NoSkybox,
   portals |-> << [min |-> Vec3(-50, -50, -150), max |-> Vec3(50, 50, -100),
                   to_pos |-> Vec3(0, 0, -100), rot_y_deg |-> 180] >>]

\* a scene whose second voxel names a material that does not exist
BadScene ==
  [materials |-> <<stone>>,
   voxels |-> << Voxel(Vec3(200, 200, 200), Vec3(300, 300, 300), 0),
                 Voxel(Vec3(-50, -50, -50), Vec3(50, 50, 50), 3) >>,
   triangles |-> <<>>, skybox |-> NoSkybox, portals |-> <<>>]

\* two torches and a faintly glowing box around a plain one
LampScene ==
  [materials |-> <<torch, stone, Material(Vec3(40, 40, 90), Vec3(0, 0, 50))>>,
   voxels |-> << Voxel(Vec3(-200, 0, 0), Vec3(-100, 100, 100), 0),
                 Voxel(Vec3(-50, -50, -50), Vec3(50, 50, 50), 1),
                 Voxel(Vec3(0, 100, 0), Vec3(100, 200, 100), 2),
                 Voxel(Vec3(100, 0, 0), Vec3(200, 100, 100), 0) >>,
   triangles |-> <<>>, skybox |-> NoSkybox, portals |-> <<>>]

Scenes == {GoodScene, BadScene, LampScene}

Pose(eye, target) == [eye |-> eye, target |-> target, up |-> Vec3(0, 100, 0), fov_deg |-> 60]
Poses == { Pose(Vec3(0, 0, -500), Vec3(0, 0, 0)),
           Pose(Vec3(300, 200, -500), Vec3(0, 0, 0)) }

TileSz == 32

\* the (w, h) passed to Renderer::new and Image::new
Dims == { <<w, 1>> : w \in {1} \cup { TileSz * (k - 1) + 1 : k \in 2..MaxTilesX } }

(* --------------------------------------------------------------- state -- *)

VARIABLES
  renderer,   \* the Renderer's fields
  img,        \* the output Image the driver passes to every render_frame
  pc,         \* where the main thread is: idle, spawn, join, lock, post, aborted
  frame,      \* render_frame's locals on the main thread
  fb,         \* the Vec<Color> inside the Arc<Mutex<..>>
  mutex,      \* [locked, poisoned] of the framebuffer Mutex
  tiles,      \* the spawned tile threads, in spawn order
  calls,      \* API calls made so far
  hist,       \* history: what the current / last render_frame call did
  probe,      \* a call of one kernel function on its own: [op, args, out]
  driver      \* main's own state: the model file it finds and the scene it built

vars == <<renderer, img, pc, frame, fb, mutex, tiles, calls, hist, probe, driver>>

ZeroColors(n) == [i \in 1..n |-> VZero]

Renderer_new(w, h, spp) ==
  [w |-> w, h |-> h, spp |-> spp, tilesz |-> TileSz, scene |-> <<>>, camera |-> <<>>,
   tex_cache |-> <<>>, skybox_cache |-> NoSkybox, lights |-> <<>>,
   use_procedural_sky |-> TRUE]

Image_new(w, h) == [w |-> w, h |-> h, data |-> ZeroColors(w * h)]

NoFrame == [time |-> 0, ntiles_x |-> 0, ntiles_y |-> 0, L |-> <<>>, S |-> <<>>, joined |-> 0]
NoHist ==
  [frames |-> 0, time |-> 0, at_call |-> <<>>, writes |-> <<>>, oob |-> FALSE,
   set |-> <<>>, img_before |-> <<>>]

\* no kernel function is being called on its own
NoProbe == [op |-> "none", args |-> <<>>, out |-> <<>>]

\* the renderer is used without the driver
NoDriver == [at |-> "none", obj |-> [exists |-> FALSE, open |-> <<>>], scene |-> <<>>]

InitWith(dims, spps, made) ==
  /\ probe = NoProbe
  /\ \E d \in dims, spp \in spps :
       /\ renderer = Renderer_new(d[1], d[2], spp)
       /\ img = Image_new(d[1], d[2])
  /\ pc = "idle"
  /\ frame = NoFrame
  /\ fb = <<>>
  /\ mutex = [locked |-> FALSE, poisoned |-> FALSE]
  /\ tiles = <<>>
  /\ calls = made
  /\ hist = NoHist

Init == InitWith(Dims, 0..MaxSpp, 0) /\ driver = NoDriver

(* ---------------------------------------------------- Renderer setters -- *)

\* load_tex: image::open(path).ok()?: no texture file is present
load_tex(path) == <<>>
load_opt(path_opt) == IF path_opt # <<>> THEN load_tex(path_opt[1]) ELSE <<>>

IsEmissive(m) == m.emissive[1] > 0 \/ m.emissive[2] > 0 \/ m.emissive[3] > 0

no_bad_voxel(scene, i) == 0

\* the index of the first voxel whose materials[v.mat_id] is out of bounds, or 0
RECURSIVE first_bad_voxel(_, _)
first_bad_voxel(scene, i) ==
  IF i > Len(scene.voxels) THEN 0
  ELSE IF scene.voxels[i].mat_id >= Len(scene.materials) THEN i
  ELSE first_bad_voxel(scene, i + 1)

RECURSIVE derive_lights_at_min(_, _)
derive_lights_at_min(scene, i) ==
  IF i > Len(scene.voxels) THEN <<>>
  ELSE LET v == scene.voxels[i]
       IN IF IsEmissive(scene.materials[v.mat_id + 1])
            THEN <<[pos |-> v.min, color |-> scene.materials[v.mat_id + 1].emissive,
                    intensity |-> FP]>> \o derive_lights_at_min(scene, i + 1)
            ELSE derive_lights_at_min(scene, i + 1)

RECURSIVE derive_lights_and_portals(_, _)
derive_lights_and_portals(scene, i) ==
  IF i > Len(scene.voxels)
    THEN [j \in 1..Len(scene.portals) |->
            [pos |-> scene.portals[j].to_pos, color |-> Vec3(400, 400, 400), intensity |-> FP]]
  ELSE LET v == scene.voxels[i]
       IN IF v.mat_id < Len(scene.materials) /\ IsEmissive(scene.materials[v.mat_id + 1])
            THEN <<[pos |-> VScale(VAdd(v.min, v.max), 50),
                    color |-> scene.materials[v.mat_id + 1].emissive,
                    intensity |-> FP]>> \o derive_lights_and_portals(scene, i + 1)
            ELSE derive_lights_and_portals(scene, i + 1)

\* the loop over cloned.voxels that pushes one Light per emissive voxel
RECURSIVE derive_lights(_, _)
derive_lights(scene, i) ==
  IF i > Len(scene.voxels) THEN <<>>
  ELSE LET v == scene.voxels[i]
       IN IF v.mat_id < Len(scene.materials) /\ IsEmissive(scene.materials[v.mat_id + 1])
            THEN <<[pos |-> VScale(VAdd(v.min, v.max), 50),
                    color |-> scene.materials[v.mat_id + 1].emissive,
                    intensity |-> FP]>> \o derive_lights(scene, i + 1)
            ELSE derive_lights(scene, i + 1)

\* set_scene: the caches are assigned first; indexing materials with an
\* out-of-range mat_id panics on the main thread before lights and scene are
\* assigned, and the process aborts
set_scene(scene) ==
  /\ pc = "idle" /\ calls < MaxCalls
  /\ LET cloned == scene
         cache == [i \in 1..Len(cloned.materials) |->
                     IF cloned.materials[i].texture_path # <<>>
                       THEN load_tex(cloned.materials[i].texture_path[1]) ELSE <<>>]
         sky == [i \in 1..6 |-> load_opt(cloned.skybox[i])]
         r1 == [renderer EXCEPT !.tex_cache = cache, !.skybox_cache = sky]
     IN IF first_bad_voxel(cloned, 1) # 0
          THEN /\ renderer' = r1
               /\ pc' = "aborted"
          ELSE /\ renderer' = [r1 EXCEPT !.lights = derive_lights(cloned, 1),
                                         !.scene = <<cloned>>]
               /\ pc' = "idle"
  /\ calls' = calls + 1
  /\ UNCHANGED <<img, frame, fb, mutex, tiles, hist, probe, driver>>

set_camera(pose) ==
  /\ pc = "idle" /\ calls < MaxCalls
  /\ renderer' = [renderer EXCEPT !.camera = <<pose>>]
  /\ calls' = calls + 1
  /\ UNCHANGED <<img, pc, frame, fb, mutex, tiles, hist, probe, driver>>

set_use_procedural_sky(v) ==
  /\ pc = "idle" /\ calls < MaxCalls
  /\ renderer' = [renderer EXCEPT !.use_procedural_sky = v]
  /\ calls' = calls + 1
  /\ UNCHANGED <<img, pc, frame, fb, mutex, tiles, hist, probe, driver>>

(* -------------------------------------------------------- render_frame -- *)

\* (self.w + self.tilesz - 1) / self.tilesz
ntiles(n, tilesz) == (n + tilesz - 1) \div tilesz

\* the values render_frame derives from the time before it spawns anything
Lighting(time) ==
  [sun_dir |-> sun_direction(time), sun_intensity |-> sun_intensity(time),
   sun_color |-> sun_color(time), sky_color |-> sky_color(time),
   ambient_level |-> ambient_level(time), time |-> time]

snapshot_without_camera(r) ==
  [scene |-> r.scene, camera |-> <<>>, tex_cache |-> r.tex_cache,
   skybox_cache |-> r.skybox_cache, lights |-> r.lights,
   use_procedural_sky |-> r.use_procedural_sky]

\* scene_cloned, camera_cloned, tex_cache_cloned, skybox_cache_cloned,
\* lights_cloned and the sky flag each task is given
snapshot(r) ==
  [scene |-> r.scene, camera |-> r.camera, tex_cache |-> r.tex_cache,
   skybox_cache |-> r.skybox_cache, lights |-> r.lights,
   use_procedural_sky |-> r.use_procedural_sky]

\* render_frame up to the spawn loop: lighting, clones, a fresh framebuffer
render_frame_begin(time) ==
  /\ pc = "idle" /\ calls < MaxCalls
  /\ frame' = [time |-> time,
               ntiles_x |-> ntiles(renderer.w, renderer.tilesz),
               ntiles_y |-> ntiles(renderer.h, renderer.tilesz),
               L |-> Lighting(time), S |-> snapshot(renderer), joined |-> 0]
  /\ fb' = ZeroColors(renderer.w * renderer.h)
  /\ mutex' = [locked |-> FALSE, poisoned |-> FALSE]
  /\ tiles' = <<>>
  /\ pc' = "spawn"
  /\ calls' = calls + 1
  /\ hist' = [frames |-> hist.frames + 1, time |-> time, at_call |-> <<renderer>>,
              writes |-> [i \in 1..(renderer.w * renderer.h) |-> 0], oob |-> FALSE,
              set |-> [i \in 1..Len(img.data) |-> FALSE], img_before |-> <<img.data>>]
  /\ UNCHANGED <<renderer, img, probe, driver>>

\* one iteration of the spawn loop (ty outer, tx inner): thread::spawn
spawn_tile ==
  /\ pc = "spawn"
  /\ Len(tiles) < frame.ntiles_x * frame.ntiles_y
  /\ tiles' = Append(tiles,
       [tx |-> Len(tiles) % frame.ntiles_x, ty |-> Len(tiles) \div frame.ntiles_x,
        w |-> renderer.w, h |-> renderer.h, tilesz |-> renderer.tilesz,
        spp |-> renderer.spp, S |-> frame.S, L |-> frame.L,
        pc |-> "run", tile_colors |-> <<>>, locks |-> 0])
  /\ UNCHANGED <<renderer, img, pc, frame, fb, mutex, calls, hist, probe, driver>>

\* the spawn loop is over
spawn_done ==
  /\ pc = "spawn"
  /\ Len(tiles) = frame.ntiles_x * frame.ntiles_y
  /\ pc' = "join"
  /\ UNCHANGED <<renderer, img, frame, fb, mutex, tiles, calls, hist, probe, driver>>

(* ------------------------------------------------------ one tile task -- *)

tile_x0(t) == t.tx * t.tilesz
tile_y0(t) == t.ty * t.tilesz
tile_x1_unclipped(t) == tile_x0(t) + t.tilesz
\* (x0 + tilesz).min(w)
tile_x1(t) == Min2(tile_x0(t) + t.tilesz, t.w)
tile_y1(t) == Min2(tile_y0(t) + t.tilesz, t.h)

\* the pixels of the tile in the order of the loops: y outer, x inner
tile_pixels(t) ==
  LET nx == tile_x1(t) - tile_x0(t)
      ny == tile_y1(t) - tile_y0(t)
  IN IF nx <= 0 \/ ny <= 0 THEN <<>>
     ELSE [j \in 1..(nx * ny) |-> <<tile_x0(t) + ((j - 1) % nx), tile_y0(t) + ((j - 1) \div nx)>>]

\* Option<HitInfo> of the primary ray of pixel (x, y)
primary_hit(t, x, y) ==
  Bind(make_primary_ray(x, y, t.w, t.h, t.S.camera[1]), LAMBDA ray :
    trace_voxels(ray, t.S.scene[1].voxels))

\* scene.materials[hit.mat_id] is out of bounds for a sample of pixel (x, y)
sample_panics(t, x, y) ==
  /\ t.spp > 0
  /\ Bind(primary_hit(t, x, y), LAMBDA hit :
       hit # <<>> /\ hit[1].mat_id >= Len(t.S.scene[1].materials))

\* the colour of one sample of pixel (x, y)
sample_color(t, x, y) ==
  LET snap == [t.S EXCEPT !.scene = t.S.scene[1]]
  IN Bind(make_primary_ray(x, y, t.w, t.h, t.S.camera[1]), LAMBDA ray :
     Bind(trace_voxels(ray, snap.scene.voxels), LAMBDA hit :
       IF hit # <<>> THEN shade_hit(snap, t.L, ray, hit[1])
       ELSE shade_miss(snap, t.L, ray, y, t.h)))

\* color_acc / (spp as f64): 0 / 0 is NaN
div_spp(acc, spp) ==
  IF spp = 0 THEN (IF acc = 0 THEN NaN ELSE IF acc > 0 THEN PosInf ELSE NegInf)
  ELSE fdiv(acc, spp * FP)

average_tonemapped(c, spp) ==
  tonemap_aces(<<div_spp(spp * c[1], spp), div_spp(spp * c[2], spp), div_spp(spp * c[3], spp)>>)

\* color_acc is the sum of spp evaluations of the same expression (the
\* sampling has no jitter), then color_acc / spp
average(c, spp) ==
  <<div_spp(spp * c[1], spp), div_spp(spp * c[2], spp), div_spp(spp * c[3], spp)>>

pixel_color_by_column(t, x, y) ==
  IF t.S.scene = <<>> \/ t.S.camera = <<>>
    THEN sky_gradient(x + y, t.h, t.L.sky_color)
    ELSE average(IF t.spp = 0 THEN VZero ELSE sample_color(t, x, y), t.spp)

\* the colour a tile task pushes for pixel (x, y)
pixel_color(t, x, y) ==
  IF t.S.scene = <<>> \/ t.S.camera = <<>>
    THEN sky_gradient(y, t.h, t.L.sky_color)
    ELSE average(IF t.spp = 0 THEN VZero ELSE sample_color(t, x, y), t.spp)

tile_panics(t) ==
  /\ t.S.scene # <<>> /\ t.S.camera # <<>>
  /\ Bind(tile_pixels(t), LAMBDA px :
       \E j \in 1..Len(px) : sample_panics(t, px[j][1], px[j][2]))

\* the task up to the lock: every pixel of the tile is computed into the
\* task's own tile_colors; an out-of-range material index ends the thread
tile_compute(k) ==
  /\ k \in 1..Len(tiles) /\ tiles[k].pc = "run"
  /\ IF tile_panics(tiles[k])
       THEN tiles' = [tiles EXCEPT ![k].pc = "panicked"]
       ELSE tiles' = [tiles EXCEPT ![k].pc = "computed",
              ![k].tile_colors = Bind(tiles[k], LAMBDA t : Bind(tile_pixels(t), LAMBDA px :
                  [j \in 1..Len(px) |-> <<px[j][1], px[j][2], pixel_color(t, px[j][1], px[j][2])>>]))]
  /\ UNCHANGED <<renderer, img, pc, frame, fb, mutex, calls, hist, probe, driver>>

lock_always_available(m) == TRUE

\* Mutex::lock returns only while no guard is alive
lock_available(m) == ~m.locked

MutexGuard_leak(m, panicking) == [locked |-> TRUE, poisoned |-> m.poisoned \/ panicking]

\* the guard goes out of scope: the mutex is released, and poisoned when the
\* holder is panicking
MutexGuard_drop(m, panicking) == [locked |-> FALSE, poisoned |-> m.poisoned \/ panicking]

\* fb_cl.lock(): blocks while the mutex is held; Err when it is poisoned, and
\* then the write is skipped (if let Ok)
tile_lock(k) ==
  /\ k \in 1..Len(tiles) /\ tiles[k].pc = "computed"
  /\ lock_available(mutex)
  /\ IF mutex.poisoned
       THEN /\ tiles' = [tiles EXCEPT ![k].pc = "done"]
            /\ mutex' = mutex
       ELSE /\ tiles' = [tiles EXCEPT ![k].pc = "locked", ![k].locks = @ + 1]
            /\ mutex' = [mutex EXCEPT !.locked = TRUE]
  /\ UNCHANGED <<renderer, img, pc, frame, fb, calls, hist, probe, driver>>

fb_index_one_based(t, x, y) == y * t.w + x + 1

fb_index_local(t, x, y) == (y - tile_y0(t)) * t.w + (x - tile_x0(t))

\* idx = y * w + x
fb_index(t, x, y) == y * t.w + x

\* the entries of tile_colors written before the first index out of bounds
writes_done(t, n) ==
  LET bad == { j \in 1..Len(t.tile_colors) :
                 fb_index(t, t.tile_colors[j][1], t.tile_colors[j][2]) >= n }
  IN IF bad = {} THEN Len(t.tile_colors)
     ELSE (CHOOSE j \in bad : \A j2 \in bad : j <= j2) - 1

\* fb_guard[idx] = c for the entries lo..hi of tile_colors, in their order
RECURSIVE write_range(_, _, _, _)
write_range(buf, t, lo, hi) ==
  IF lo > hi THEN buf
  ELSE IF lo = hi
    THEN [buf EXCEPT ![fb_index(t, t.tile_colors[lo][1], t.tile_colors[lo][2]) + 1] =
                        t.tile_colors[lo][3]]
  ELSE Bind((lo + hi) \div 2, LAMBDA mid :
       Bind(write_range(buf, t, lo, mid), LAMBDA left : write_range(left, t, mid + 1, hi)))

\* history: the number of writes to each index by the entries lo..hi
RECURSIVE count_range(_, _, _, _)
count_range(cnt, t, lo, hi) ==
  IF lo > hi THEN cnt
  ELSE IF lo = hi
    THEN [cnt EXCEPT ![fb_index(t, t.tile_colors[lo][1], t.tile_colors[lo][2]) + 1] = @ + 1]
  ELSE Bind((lo + hi) \div 2, LAMBDA mid :
       Bind(count_range(cnt, t, lo, mid), LAMBDA left : count_range(left, t, mid + 1, hi)))

\* the loop under the guard: fb_guard[idx] = c for every entry, then the
\* guard is dropped; an index out of bounds panics with the guard held and
\* poisons the mutex
tile_write(k) ==
  /\ k \in 1..Len(tiles) /\ tiles[k].pc = "locked"
  /\ \E t \in {tiles[k]} : \E m \in {writes_done(t, Len(fb))} :
        /\ fb' = write_range(fb, t, 1, m)
        /\ hist' = [hist EXCEPT !.writes = count_range(hist.writes, t, 1, m),
                                !.oob = hist.oob \/ m < Len(t.tile_colors)]
        /\ tiles' = [tiles EXCEPT ![k].pc = IF m < Len(t.tile_colors) THEN "panicked" ELSE "done"]
        /\ mutex' = MutexGuard_drop(mutex, m < Len(t.tile_colors))
  /\ UNCHANGED <<renderer, img, pc, frame, calls, probe, driver>>

(* ------------------------------------------- join, drain, post-process -- *)

terminated(t) == t.pc \in {"done", "panicked"}

join_returns_at_once(t) == TRUE

\* h.join() returns once the thread has terminated, normally or by panic
join_returns(t) == terminated(t)

\* for h in handles { let _ = h.join(); }
join_tile ==
  /\ pc = "join"
  /\ frame.joined < Len(tiles)
  /\ join_returns(tiles[frame.joined + 1])
  /\ frame' = [frame EXCEPT !.joined = @ + 1]
  /\ UNCHANGED <<renderer, img, pc, fb, mutex, tiles, calls, hist, probe, driver>>

join_done ==
  /\ pc = "join"
  /\ frame.joined = Len(tiles)
  /\ pc' = "lock"
  /\ UNCHANGED <<renderer, img, frame, fb, mutex, tiles, calls, hist, probe, driver>>

\* fb.lock().unwrap(): a poisoned mutex panics the main thread
main_lock ==
  /\ pc = "lock"
  /\ lock_available(mutex)
  /\ IF mutex.poisoned
       THEN pc' = "aborted" /\ mutex' = mutex
       ELSE pc' = "post" /\ mutex' = [mutex EXCEPT !.locked = TRUE]
  /\ UNCHANGED <<renderer, img, frame, fb, tiles, calls, hist, probe, driver>>

\* Image::set: silently ignores a pixel outside the image
Image_set_inside(im, x, y) == x < im.w /\ y < im.h

\* out = gamma22(tonemap_aces(fb_data[idx]))
post_color(c) == gamma22(tonemap_aces(c))

post_cols_short(r) == 0..(r.w - 2)

\* the x range of the post-processing loop
post_cols(r) == 0..(r.w - 1)

\* the drain loop over all (x, y), then the guard is dropped and
\* render_frame returns
post_process ==
  /\ pc = "post"
  /\ LET r == renderer
         covered(i) == LET x == (i - 1) % img.w
                           y == (i - 1) \div img.w
                       IN x \in post_cols(r) /\ y < r.h /\ Image_set_inside(img, x, y)
         src(i) == (((i - 1) \div img.w) * r.w) + ((i - 1) % img.w)
     IN /\ img' = [img EXCEPT !.data = [i \in 1..Len(img.data) |->
                      IF covered(i) THEN post_color(fb[src(i) + 1]) ELSE img.data[i]]]
        /\ hist' = [hist EXCEPT !.set = [i \in 1..Len(img.data) |-> covered(i)]]
  /\ mutex' = MutexGuard_drop(mutex, FALSE)
  /\ pc' = "idle"
  /\ UNCHANGED <<renderer, frame, fb, tiles, calls, probe, driver>>

(* ------------------------------------------------------- specification -- *)

\* a step of the k-th spawned thread
Tile(k) == tile_compute(k) \/ tile_lock(k) \/ tile_write(k)

TileStep == \E k \in 1..Len(tiles) : Tile(k)

MainStep == spawn_tile \/ spawn_done \/ join_tile \/ join_done \/ main_lock \/ post_process

ApiCall ==
  \/ \E s \in Scenes : set_scene(s)
  \/ \E p \in Poses : set_camera(p)
  \/ \E v \in BOOLEAN : set_use_procedural_sky(v)
  \/ \E t \in {0, 20} : render_frame_begin(t)

Next == ApiCall \/ MainStep \/ TileStep

Spec == Init /\ [][Next]_vars

\* renderers of one pixel after one call that changed nothing, and renderers
\* of several tiles with their last call to come
InitFair ==
  /\ driver = NoDriver
  /\ \/ InitWith({ <<1, 1>> }, 0..MaxSpp, 1)
     \/ InitWith({ <<TileSz * (MaxTilesX - 1) + 1, 1>> }, {1}, MaxCalls - 1)

\* the operating system schedules every thread that can take a step: the
\* main thread inside render_frame and each spawned tile thread
Fairness ==
  /\ WF_vars(MainStep)
  /\ \A k \in 1..MaxTilesX : WF_vars(Tile(k))

SpecFair == InitFair /\ [][Next]_vars /\ Fairness

\* the last render_frame call of a run, on a renderer no scene was bound to,
\* for image sizes with no tile, one tile, and tiles in both directions,
\* clipped and unclipped
InitTiles ==
  /\ InitWith({ <<0, 1>>, <<1, 0>>, <<1, 1>>, <<TileSz, 1>>, <<2 * TileSz, 2>>,
                <<1, TileSz + 1>>, <<TileSz + 1, TileSz + 1>>,
                <<TileSz * (MaxTilesX + 1), 1>> }, {1}, MaxCalls - 1)
  /\ driver = NoDriver
SpecTiles == InitTiles /\ [][render_frame_begin(0) \/ MainStep \/ TileStep]_vars

(* ------------------------------------------------ scene builder, driver -- *)

\* the scene of the house: materials grass, dirt, stone, planks, dark_wood,
\* roof, glass, water, torch, tree_leaves and sun, the boxes of add_box in
\* their order, no skybox, two portals, and the triangles of the optional
\* model file (obj is what File::open gives for it)
build_minecraft_house_scene(obj) ==
  [materials |->
     << [albedo |-> Vec3(95, 98, 95), emissive |-> Vec3(0, 0, 0),
           texture_path |-> <<"assets/textures/grass.jpeg">>, uv_scale |-> 800, animated_uv |-> FALSE],
          [albedo |-> Vec3(55, 44, 36), emissive |-> Vec3(0, 0, 0),
           texture_path |-> <<"assets/textures/dirt.jpeg">>, uv_scale |-> 400, animated_uv |-> FALSE],
          [albedo |-> Vec3(72, 72, 74), emissive |-> Vec3(0, 0, 0),
           texture_path |-> <<"assets/textures/stone.jpeg">>, uv_scale |-> 300, animated_uv |-> FALSE],
          [albedo |-> Vec3(85, 70, 52), emissive |-> Vec3(0, 0, 0),
           texture_path |-> <<"assets/textures/planks.jpeg">>, uv_scale |-> 250, animated_uv |-> FALSE],
          [albedo |-> Vec3(35, 25, 18), emissive |-> Vec3(0, 0, 0),
           texture_path |-> <<"assets/textures/planks.jpeg">>, uv_scale |-> 250, animated_uv |-> FALSE],
          [albedo |-> Vec3(95, 60, 55), emissive |-> Vec3(0, 0, 0),
           texture_path |-> <<"assets/textures/roof.jpeg">>, uv_scale |-> 200, animated_uv |-> FALSE],
          [albedo |-> Vec3(95, 97, 100), emissive |-> Vec3(0, 0, 0),
           texture_path |-> <<"assets/textures/glass.jpeg">>, uv_scale |-> 100, animated_uv |-> FALSE],
          [albedo |-> Vec3(25, 45, 95), emissive |-> Vec3(0, 0, 0),
           texture_path |-> <<"assets/textures/water.png">>, uv_scale |-> 600, animated_uv |-> TRUE],
          [albedo |-> Vec3(100, 85, 45), emissive |-> Vec3(400, 260, 120),
           texture_path |-> <<>>, uv_scale |-> 100, animated_uv |-> FALSE],
          [albedo |-> Vec3(65, 85, 60), emissive |-> Vec3(0, 0, 0),
           texture_path |-> <<"assets/textures/tree.jpeg">>, uv_scale |-> 200, animated_uv |-> FALSE],
          [albedo |-> Vec3(100, 95, 85), emissive |-> Vec3(2000, 1800, 1000),
           texture_path |-> <<>>, uv_scale |-> 100, animated_uv |-> FALSE] >>,
   voxels |->
     << Voxel(Vec3(-500, 0, -500), Vec3(2000, 80, 2000), 1),
          Voxel(Vec3(-500, 80, -500), Vec3(2000, 100, 2000), 0),
          Voxel(Vec3(300, 100, 300), Vec3(1300, 600, 325), 3),
          Voxel(Vec3(650, 200, 300), Vec3(950, 400, 325), 6),
          Voxel(Vec3(300, 100, 1275), Vec3(740, 600, 1300), 3),
          Voxel(Vec3(860, 100, 1275), Vec3(1300, 600, 1300), 3),
          Voxel(Vec3(740, 320, 1275), Vec3(860, 600, 1300), 3),
          Voxel(Vec3(300, 100, 300), Vec3(325, 600, 1300), 3),
          Voxel(Vec3(1275, 100, 300), Vec3(1300, 600, 1300), 3),
          Voxel(Vec3(300, 320, 300), Vec3(1300, 390, 325), 4),
          Voxel(Vec3(300, 320, 1275), Vec3(1300, 390, 1300), 4),
          Voxel(Vec3(300, 320, 300), Vec3(325, 390, 1300), 4),
          Voxel(Vec3(1275, 320, 300), Vec3(1300, 390, 1300), 4),
          Voxel(Vec3(620, 200, 1275), Vec3(720, 350, 1300), 6),
          Voxel(Vec3(880, 200, 1275), Vec3(980, 350, 1300), 6),
          Voxel(Vec3(900, 380, 1275), Vec3(980, 500, 1300), 6),
          Voxel(Vec3(300, 200, 700), Vec3(325, 350, 900), 6),
          Voxel(Vec3(1275, 200, 700), Vec3(1300, 350, 900), 6),
          Voxel(Vec3(250, 606, 250), Vec3(1350, 666, 1350), 5),
          Voxel(Vec3(350, 666, 350), Vec3(1250, 726, 1250), 5),
          Voxel(Vec3(450, 726, 450), Vec3(1150, 786, 1150), 5),
          Voxel(Vec3(550, 786, 550), Vec3(1050, 866, 1050), 5),
          Voxel(Vec3(745, 100, 1277), Vec3(855, 320, 1298), 4),
          Voxel(Vec3(600, 320, 1285), Vec3(620, 360, 1300), 8),
          Voxel(Vec3(980, 320, 1285), Vec3(1000, 360, 1300), 8),
          Voxel(Vec3(700, 100, 1360), Vec3(730, 240, 1390), 4),
          Voxel(Vec3(690, 240, 1350), Vec3(740, 290, 1400), 8),
          Voxel(Vec3(100, 100, 1400), Vec3(450, 120, 1700), 7),
          Voxel(Vec3(1580, 100, 820), Vec3(1620, 550, 860), 4),
          Voxel(Vec3(1480, 550, 720), Vec3(1720, 750, 960), 9),
          Voxel(Vec3(1530, 750, 770), Vec3(1670, 890, 910), 9),
          Voxel(Vec3(1560, 890, 800), Vec3(1640, 970, 880), 9),
          Voxel(Vec3(3000, 2500, 500), Vec3(3350, 2850, 850), 10) >>,
   triangles |-> load_obj_triangles(obj, 2, 60, Vec3(1500, 100, 1000)),
   skybox |-> NoSkybox,
   portals |->
     << [min |-> Vec3(300, 100, 1200), max |-> Vec3(320, 360, 1260),
         to_pos |-> Vec3(1280, 200, 340), rot_y_deg |-> 180],
        [min |-> Vec3(1280, 100, 300), max |-> Vec3(1300, 360, 360),
         to_pos |-> Vec3(310, 200, 1230), rot_y_deg |-> 180] >>]

\* CameraOrbit::pose_at with the phase (t / 10) * TAU given in whole degrees
pose_at(orbit, deg) ==
  LET radius == orbit.base_radius + fmul(orbit.zoom_amp, SinDeg(2 * deg))
  IN [eye |-> Vec3(orbit.center[1] + fmul(radius, CosDeg(deg)), orbit.height,
                   orbit.center[3] + fmul(radius, SinDeg(deg))),
      target |-> orbit.center, up |-> Vec3(0, 100, 0), fov_deg |-> 60]

\* main's locals frames and fps
frames == 100
fps == 30

\* the model file as main finds it: [exists, open] with open what File::open
\* gives. A missing file, a file that cannot be opened, an empty file, one
\* triangle, and a file with a comment, a short vertex line, a quad given by
\* negative indices, a degenerate face and faces with a zero and an
\* out-of-range index
ObjFiles ==
  LET ObjLine(tag, xyz, idx) == [tag |-> tag, xyz |-> xyz, idx |-> idx]
  IN
  { [exists |-> FALSE, open |-> <<>>],
    [exists |-> TRUE, open |-> <<>>],
    [exists |-> TRUE, open |-> << <<>> >>],
    [exists |-> TRUE, open |-> <<
       << ObjLine("v", << <<0>>, <<0>>, <<0>> >>, <<>>),
          ObjLine("v", << <<100>>, <<0>>, <<0>> >>, <<>>),
          ObjLine("v", << <<0>>, <<100>>, <<0>> >>, <<>>),
          ObjLine("f", <<>>, << <<1>>, <<2>>, <<3>> >>) >> >>],
    [exists |-> TRUE, open |-> <<
       << ObjLine("#", <<>>, <<>>),
          ObjLine("v", << <<0>>, <<0>> >>, <<>>),
          ObjLine("v", << <<0>>, <<0>>, <<0>> >>, <<>>),
          ObjLine("v", << <<200>>, <<>>, <<0>> >>, <<>>),
          ObjLine("v", << <<200>>, <<200>>, <<0>> >>, <<>>),
          ObjLine("v", << <<0>>, <<200>>, <<0>> >>, <<>>),
          ObjLine("f", <<>>, << <<-4>>, <<-3>>, <<-2>>, <<-1>> >>),
          ObjLine("f", <<>>, << <<1>>, <<1>>, <<2>> >>),
          ObjLine("f", <<>>, << <<0>>, <<1>>, <<2>> >>),
          ObjLine("f", <<>>, << <<1>>, <<2>>, <<9>>, <<>> >>),
          ObjLine("vn", <<>>, <<>>) >> >>] }

\* main up to Renderer::new: the house scene, extended by the triangles of
\* the model file when Path::exists says it is there
main_build_scene ==
  /\ driver.at = "start"
  /\ LET scene == build_minecraft_house_scene(driver.obj.open)
         tris == load_obj_triangles(driver.obj.open, 2, 50, Vec3(1000, 100, 1000))
     IN driver' = [driver EXCEPT !.at = "built",
                     !.scene = <<IF driver.obj.exists
                                   THEN [scene EXCEPT !.triangles = @ \o tris]
                                   ELSE scene>>]
  /\ UNCHANGED <<renderer, img, pc, frame, fb, mutex, tiles, calls, hist, probe>>

\* renderer.set_scene(&scene)
main_set_scene ==
  /\ driver.at = "built" /\ calls = 0
  /\ set_scene(driver.scene[1])

\* the first call of iteration f of the render loop: set_camera with
\* orbit.pose_at((f / fps) * 1.5), whose phase is 54 f / fps degrees
main_set_camera ==
  /\ driver.at = "built" /\ calls % 2 = 1 /\ (calls - 1) \div 2 < frames
  /\ LET f == (calls - 1) \div 2
     IN set_camera(pose_at([center |-> Vec3(500, 300, 500), base_radius |-> 1800,
                            zoom_amp |-> 0, height |-> 700],
                           (2 * 54 * f + fps) \div (2 * fps)))

\* the second call of iteration f: render_frame(&mut img, day_time) with
\* day_time = ((f / frames) * 48) % 24 in whole units of the time
main_render_frame ==
  /\ driver.at = "built" /\ calls > 0 /\ calls % 2 = 0
  /\ LET f == (calls - 2) \div 2
     IN render_frame_begin(((2 * 48 * f + frames) \div (2 * frames)) % 24)

\* main starts with the model file in one of its states; the image sizes
\* are scaled down from 640x360, with spp = 1
InitDriver ==
  /\ InitWith({ <<1, 1>>, <<2, 1>>, <<2, 2>> }, {1}, 0)
  /\ \E o \in ObjFiles : driver = [at |-> "start", obj |-> o, scene |-> <<>>]
SpecDriver ==
  InitDriver /\ [][main_build_scene \/ main_set_scene \/ main_set_camera
                     \/ main_render_frame \/ MainStep \/ TileStep]_vars

(* ------------------------------------------ kernel functions on their own -- *)

\* rays from four origins along the axes and two diagonals, with the bounds
\* of a primary ray and with a bound at and just behind the nearest box
ProbeRays ==
  { [Ray_new(o, d) EXCEPT !.tmax = tm] :
      o \in { Vec3(0, 0, -500), Vec3(0, 0, 0), Vec3(-500, 0, 0), Vec3(0, 25, -500) },
      d \in { Vec3(0, 0, 100), Vec3(100, 0, 0), Vec3(0, 0, -100), Vec3(0, 10, 100),
              Vec3(100, 0, 100) },
      tm \in { T_MAX_PRIMARY, 450, 500 } }

\* a unit box at the origin, a box behind it, a slab with the same near
\* face as the first, and a box off to the side
\* voxel lists of up to three distinct boxes, in every order
ProbeVoxelLists ==
  LET ProbeBoxes ==
        { Voxel(Vec3(-50, -50, -50), Vec3(50, 50, 50), 0),
          Voxel(Vec3(-50, -50, 100), Vec3(50, 50, 200), 1),
          Voxel(Vec3(-100, -100, -50), Vec3(100, 100, 0), 2),
          Voxel(Vec3(300, -50, -50), Vec3(400, 50, 50), 3) }
  IN { <<>> } \cup { <<a>> : a \in ProbeBoxes }
     \cup { l \in ProbeBoxes \X ProbeBoxes : l[1] # l[2] }
     \cup { l \in ProbeBoxes \X ProbeBoxes \X ProbeBoxes :
              l[1] # l[2] /\ l[1] # l[3] /\ l[2] # l[3] }

\* the unit vector along axis k (1..3) in direction s (1 or -1)
AxisDir(k, s) == [j \in 1..3 |-> IF j = k THEN s * FP ELSE 0]

\* a ray along axis k towards box b from dist outside it, whose other two
\* coordinates lie at l1 and l2 from the box's min corner
AxisRay(b, k, s, dist, l1, l2, tmin) ==
  LET o == [j \in 1..3 |->
              IF j = k THEN (IF s > 0 THEN b.min[k] - dist ELSE b.max[k] + dist)
              ELSE IF j = (k % 3) + 1 THEN b.min[j] + l1 ELSE b.min[j] + l2]
  IN [Ray_new(o, AxisDir(k, s)) EXCEPT !.tmin = tmin]

\* a plain box with a torch box half a unit beside it
PairScene ==
  [materials |-> <<stone, torch>>,
   voxels |-> << Voxel(Vec3(-50, -50, -50), Vec3(50, 50, 50), 0),
                 Voxel(Vec3(100, -50, -50), Vec3(200, 50, 50), 1) >>,
   triangles |-> <<>>, skybox |-> NoSkybox, portals |-> <<>>]

\* a decoded 2 x 2 texture: grey, white / black, red
CheckerTex == [w |-> 2, h |-> 2, data |-> <<128, 128, 128, 255, 255, 255, 0, 0, 0, 255, 0, 0>>]

\* a decoded one-pixel texture for skybox face k
FaceTex(k) == [w |-> 1, h |-> 1, data |-> <<k * 40, 255 - k * 40, 128>>]
\* skybox caches: no face file present, all six, and faces 1, 3 and 5 absent
Skyboxes ==
  { NoSkybox, [i \in 1..6 |-> <<FaceTex(i - 1)>>],
    << <<FaceTex(0)>>, <<>>, <<CheckerTex>>, <<>>, <<FaceTex(4)>>, <<>> >> }

\* what a tile task is given after set_scene(scene), with the texture of the
\* first material, the sky flag and the skybox faces as stated
SnapOf(scene, tex, flag, sky) ==
  [scene |-> scene, camera |-> <<>>,
   tex_cache |-> [i \in 1..Len(scene.materials) |-> IF i = 1 THEN tex ELSE <<>>],
   skybox_cache |-> sky, lights |-> derive_lights(scene, 1), use_procedural_sky |-> flag]

\* primary rays onto the +x, front, bottom and top face of the plain box,
\* onto the torch, and past the boxes towards every face of the sky cube
ShadeRays ==
  { [Ray_new(od[1], od[2]) EXCEPT !.tmin = 0, !.tmax = T_MAX_PRIMARY] :
      od \in { <<Vec3(75, 200, 0), Vec3(-25, -200, 0)>>,
               <<Vec3(0, 0, -500), Vec3(0, 0, 100)>>,
               <<Vec3(0, -500, 0), Vec3(0, 100, 0)>>,
               <<Vec3(0, 500, 0), Vec3(0, -100, 0)>>,
               <<Vec3(120, 200, 40), Vec3(-100, -200, 0)>>,
               <<Vec3(150, 0, -500), Vec3(0, 0, 100)>>,
               <<Vec3(0, 300, -500), Vec3(0, 0, 100)>> } }
  \cup
  { [Ray_new(Vec3(1000, 1000, 1000), d) EXCEPT !.tmin = 0, !.tmax = T_MAX_PRIMARY] :
      d \in { Vec3(100, 0, 0), Vec3(-100, 0, 0), Vec3(0, 100, 0), Vec3(0, -100, 0),
              Vec3(0, 0, 100), Vec3(0, 0, -100), Vec3(100, 100, 0), Vec3(100, 200, 300),
              Vec3(300, 200, -100) } }

\* the calls made: trace_voxels with every ray and voxel list;
\* ray_box_intersect with rays along the axes, inside and on the edge of
\* the box's cross-section; voxel_normal_at with points in, on and beside
\* a cube and a flat box; voxel_uv with points of three unit cubes and the
\* six face normals; one sample of a pixel (renderer.rs 428-669) with the
\* ray, scene, sky flag and time given; ao_term on three faces of a box
\* with every choice of boxes over it; compute_face_normal with triangles
\* of edges along and across the axes, collinear ones included
\* boxes over the top face of the unit box: above its centre, towards +x,
\* -x, +z and -z, and a slab more than one unit above
AoBlockers ==
  << Voxel(Vec3(-5, 70, -5), Vec3(5, 90, 5), 0),
     Voxel(Vec3(20, 70, -10), Vec3(60, 110, 10), 0),
     Voxel(Vec3(-60, 70, -10), Vec3(-20, 110, 10), 0),
     Voxel(Vec3(-10, 70, 20), Vec3(10, 110, 60), 0),
     Voxel(Vec3(-10, 70, -60), Vec3(10, 110, -20), 0),
     Voxel(Vec3(-100, 160, -100), Vec3(100, 200, 100), 0) >>

KernelProbes(op) ==
  CASE op = "trace_voxels" ->
  { [op |-> op, args |-> <<r, vs>>, out |-> <<>>] :
      r \in ProbeRays, vs \in ProbeVoxelLists }
  [] op = "ray_box_intersect" ->
  { [op |-> op,
     args |-> <<AxisRay(b, ks[1], ks[2], dist, l[1], l[2], tm[1]), b.min, b.max, tm[2]>>,
     out |-> <<>>] :
      b \in { Voxel(Vec3(-50, -50, -50), Vec3(50, 50, 50), 0),
              Voxel(Vec3(100, 0, -300), Vec3(200, 100, -200), 0) },
      ks \in (1..3) \X {1, -1},
      dist \in {55, 450},
      l \in {0, 1, 50, 100} \X {0, 1, 50, 100},
      tm \in { <<0, T_MAX_PRIMARY>>, <<0, 450>>, <<100, T_MAX_PRIMARY>>, <<0, 400>> } }
  [] op = "voxel_normal_at" ->
  { [op |-> op,
     args |-> << <<b.min[1] + l[1], b.min[2] + l[2], b.min[3] + l[3]>>, b.min, b.max>>,
     out |-> <<>>] :
      b \in { Voxel(Vec3(-50, -50, -50), Vec3(50, 50, 50), 0),
              Voxel(Vec3(0, 0, 0), Vec3(100, 50, 20), 0) },
      l \in {0, 10, 25, 50, 90, 100} \X {0, 10, 25, 40, 50, 100} \X {0, 10, 15, 20, 50, 100} }
  [] op = "voxel_uv" ->
  { [op |-> op, args |-> <<b.min, b.max, VAdd(b.min, l), AxisDir(ks[1], ks[2])>>,
     out |-> <<>>] :
      b \in { Voxel(Vec3(0, 0, 0), Vec3(100, 100, 100), 0),
              Voxel(Vec3(-50, -50, -50), Vec3(50, 50, 50), 0),
              Voxel(Vec3(100, 200, 300), Vec3(200, 300, 400), 0) },
      ks \in (1..3) \X {1, -1},
      l \in {0, 50, 100} \X {0, 50, 100} \X {0, 50, 100} }
  [] op = "sample" ->
  { [op |-> op, args |-> <<SnapOf(sc, tex, flag, sky), Lighting(t), r, 0, 1>>,
     out |-> <<>>] :
      sc \in {PairScene, GoodScene}, tex \in { <<>>, <<CheckerTex>> }, flag \in BOOLEAN,
      sky \in Skyboxes, t \in {0, 20, 30, 60, 90}, r \in ShadeRays }
  [] op = "ao_term" ->
  { [op |-> op,
     args |-> <<pn[1], pn[2],
                <<Voxel(Vec3(-50, -50, -50), Vec3(50, 50, 50), 0)>> \o
                SelectSeq(AoBlockers, LAMBDA b : b \in B)>>,
     out |-> <<>>] :
      pn \in { <<Vec3(0, 50, 0), Vec3(0, 100, 0)>>, <<Vec3(50, 0, 0), Vec3(100, 0, 0)>>,
               <<Vec3(0, -50, 0), Vec3(0, -100, 0)>> },
      B \in SUBSET { AoBlockers[i] : i \in 1..Len(AoBlockers) } }
  [] op = "compute_face_normal" ->
  { [op |-> op, args |-> <<a, VAdd(a, e[1]), VAdd(a, e[2])>>, out |-> <<>>] :
      a \in { VZero, Vec3(100, -200, 300) },
      e \in { Vec3(100, 0, 0), Vec3(0, 100, 0), Vec3(0, 0, 100), Vec3(200, 0, 0),
              Vec3(100, 100, 0), Vec3(0, 300, 400), Vec3(-100, 0, 200), Vec3(0, -50, 0) }
           \X
           { Vec3(100, 0, 0), Vec3(0, 100, 0), Vec3(0, 0, 100), Vec3(200, 0, 0),
             Vec3(100, 100, 0), Vec3(0, 300, 400), Vec3(-100, 0, 200), Vec3(0, -50, 0) } }
  [] op = "ambient_level_at" ->
  { [op |-> op, args |-> <<e>>, out |-> <<>>] : e \in -FP..FP }
  [] op = "daynight" ->
  { [op |-> op, args |-> <<t>>, out |-> <<>>] : t \in -cycle_duration..(2 * cycle_duration) }
  [] op = "ray_beside_box" ->
  { [op |-> op,
     args |-> <<AxisRay(b, ks[1], ks[2], 55, l[1], l[2], 0), b.min, b.max, mt>>,
     out |-> <<>>] :
      b \in { Voxel(Vec3(-50, -50, -50), Vec3(50, 50, 50), 0),
              Voxel(Vec3(-50, -50, -50), Vec3(50, 50, 3 * T_MAX_PRIMARY), 0) },
      ks \in (1..3) \X {1, -1},
      l \in {-1, 0, 50, 100, 101} \X {-1, 0, 50, 100, 101},
      mt \in {450, T_MAX_PRIMARY, T_HUGE} }

\* the value the called function returns
KernelResult(op, a) ==
  CASE op = "trace_voxels" -> trace_voxels(a[1], a[2])
    [] op = "ray_box_intersect" -> ray_box_intersect(a[1], a[2], a[3], a[4])
    [] op = "voxel_normal_at" -> voxel_normal_at(a[1], a[2], a[3])
    [] op = "voxel_uv" -> voxel_uv(a[1], a[2], a[3], a[4])
    [] op = "ao_term" -> ao_term(a[1], a[2], a[3])
    [] op = "compute_face_normal" -> compute_face_normal(a[1], a[2], a[3])
    [] op = "ambient_level_at" -> ambient_level_at(a[1])
    [] op = "daynight" -> Lighting(a[1])
    [] op = "ray_beside_box" -> ray_box_intersect(a[1], a[2], a[3], a[4])
    [] op = "sample" -> Bind(trace_voxels(a[3], a[1].scene.voxels), LAMBDA hit :
                          IF hit # <<>> THEN shade_hit(a[1], a[2], a[3], hit[1])
                          ELSE shade_miss(a[1], a[2], a[3], a[4], a[5]))

\* the call returns
kernel_call ==
  /\ probe.op # "none" /\ probe.out = <<>>
  /\ probe' = [probe EXCEPT !.out = <<KernelResult(probe.op, probe.args)>>]
  /\ UNCHANGED <<renderer, img, pc, frame, fb, mutex, tiles, calls, hist, driver>>

\* a constructed renderer beside which one kernel function is called
InitKernel ==
  /\ driver = NoDriver
  /\ \E op \in {"trace_voxels", "ray_box_intersect", "voxel_normal_at", "voxel_uv", "sample", "ao_term", "compute_face_normal", "ambient_level_at", "daynight",
                 "ray_beside_box"} :
       probe \in KernelProbes(op)
  /\ renderer = Renderer_new(1, 1, 1)
  /\ img = Image_new(1, 1)
  /\ pc = "idle"
  /\ frame = NoFrame
  /\ fb = <<>>
  /\ mutex = [locked |-> FALSE, poisoned |-> FALSE]
  /\ tiles = <<>>
  /\ calls = MaxCalls
  /\ hist = NoHist
SpecKernel == InitKernel /\ [][kernel_call]_vars

\* framebuffer channels: the undefined value, the infinities, negative, zero,
\* small, one and large
ToneInputs == {NaN, PosInf, NegInf, -100, -1, 0, 1, 50, 100, 10000}

\* a frame of one pixel whose only tile task has written the colour c: the
\* main thread has taken the lock and is about to drain the framebuffer
InitTone ==
  /\ probe = NoProbe
  /\ driver = NoDriver
  /\ \E spp \in {0, 1} : renderer = Renderer_new(1, 1, spp)
  /\ img = Image_new(1, 1)
  /\ pc = "post"
  /\ frame = [time |-> 0, ntiles_x |-> 1, ntiles_y |-> 1, L |-> Lighting(0),
              S |-> snapshot(renderer), joined |-> 1]
  /\ \E c \in ToneInputs \X ToneInputs \X ToneInputs :
       /\ fb = <<c>>
       /\ tiles = <<[tx |-> 0, ty |-> 0, w |-> 1, h |-> 1, tilesz |-> TileSz,
                     spp |-> renderer.spp, S |-> frame.S, L |-> frame.L,
                     pc |-> "done", tile_colors |-> << <<0, 0, c>> >>, locks |-> 1]>>
  /\ mutex = [locked |-> TRUE, poisoned |-> FALSE]
  /\ calls = MaxCalls
  /\ hist = [frames |-> 1, time |-> 0, at_call |-> <<renderer>>, writes |-> <<1>>,
             oob |-> FALSE, set |-> <<FALSE>>, img_before |-> <<img.data>>]
SpecTone == InitTone /\ [][post_process]_vars

(* ---------------------------------------------------------- properties -- *)

\* render_frame has returned at least once and the main thread is between calls
Returned == pc = "idle" /\ hist.frames > 0

\* the threads that hold the framebuffer lock
Holders ==
  Cardinality({ k \in 1..Len(tiles) : tiles[k].pc = "locked" }) + (IF pc = "post" THEN 1 ELSE 0)

\* C1: while the main thread reads the framebuffer for post-processing, every
\* tile task of the frame has been spawned and has terminated, and none of
\* them holds the lock.
C1_ReadOnlyAfterAllTilesTerminated ==
  pc = "post" =>
    /\ Len(tiles) = frame.ntiles_x * frame.ntiles_y
    /\ \A k \in 1..Len(tiles) : terminated(tiles[k])
    /\ Holders = 1

\* the main thread is about to drain a framebuffer two tile tasks have written
C1_Witness ==
  /\ pc = "post"
  /\ Len(tiles) = 2
  /\ \A k \in 1..Len(tiles) : tiles[k].pc = "done"
  /\ \E i \in 1..Len(fb) : fb[i] # VZero

\* C2: the framebuffer changes during a frame only by a step of a tile task
\* that holds the lock; at most one thread holds the lock; a tile task takes
\* the lock at most once, and only with the colours of its whole tile computed.
C2_LockDiscipline ==
  /\ [](/\ Holders <= 1
        /\ mutex.locked <=> Holders = 1
        /\ \A k \in 1..Len(tiles) :
             /\ tiles[k].locks <= 1
             /\ tiles[k].pc = "locked" => tiles[k].locks = 1
             /\ tiles[k].locks = 1 =>
                  /\ tiles[k].pc \in {"locked", "done", "panicked"}
                  /\ Len(tiles[k].tile_colors) = Len(tile_pixels(tiles[k])))
  /\ [][(fb' # fb /\ pc # "idle") =>
          \E k \in 1..Len(tiles) :
            /\ tiles[k].pc = "locked" /\ mutex.locked
            /\ tiles'[k].pc # "locked"
            /\ \A j \in 1..Len(tiles) : j # k => tiles'[j] = tiles[j]]_vars

\* one tile task holds the lock while another, its colours computed, waits
C2_Witness ==
  \E k, j \in 1..Len(tiles) :
    /\ tiles[k].pc = "locked" /\ tiles[j].pc = "computed"
    /\ tiles[j].tile_colors # <<>>

\* the whole image computed by one task, pixel after pixel, from the
\* renderer state r and the time alone
FrameTask(r, time) ==
  [tx |-> 0, ty |-> 0, w |-> r.w, h |-> r.h, tilesz |-> r.tilesz, spp |-> r.spp,
   S |-> snapshot(r), L |-> Lighting(time), pc |-> "run", tile_colors |-> <<>>, locks |-> 0]
SequentialRender(r, time) ==
  [i \in 1..(r.w * r.h) |->
     post_color(pixel_color(FrameTask(r, time), (i - 1) % r.w, (i - 1) \div r.w))]

\* C3: whatever the interleaving of the tile tasks and the order in which
\* they took the lock, the image render_frame returns is the image one
\* sequential pass computes from the renderer state at the call and the time.
C3_OutputIndependentOfInterleaving ==
  [][(pc = "post" /\ pc' = "idle") =>
       img'.data = SequentialRender(hist.at_call[1], hist.time)]_vars

\* a traced frame of two tiles has returned with an image that is not flat
C3_Witness ==
  /\ Returned
  /\ Len(tiles) = 2
  /\ hist.at_call[1].scene # <<>> /\ hist.at_call[1].camera # <<>>
  /\ hist.at_call[1].spp > 0
  /\ \E i, j \in 1..Len(img.data) : img.data[i] # img.data[j]

\* the least q with q * d >= n
CeilDiv(n, d) == CHOOSE q \in 0..n : q * d >= n /\ \A p \in 0..n : p * d >= n => q <= p

\* [32 tx, min(32 tx + 32, w)) x [32 ty, min(32 ty + 32, h))
TileRect(tx, ty, w, h) ==
  { <<x, y>> : x \in (TileSz * tx)..(Min2(TileSz * tx + TileSz, w) - 1),
               y \in (TileSz * ty)..(Min2(TileSz * ty + TileSz, h) - 1) }

\* C4: one task per tile (tx, ty) with tx < ceil(w/32) and ty < ceil(h/32);
\* each task computes exactly the pixels of its clipped rectangle; the
\* rectangles are pairwise disjoint and cover the image; no index is written
\* twice or out of bounds, and on return every index y*w+x has been written
\* exactly once.
C4_TilingExact ==
  LET w == renderer.w
      h == renderer.h
      rect(k) == TileRect(tiles[k].tx, tiles[k].ty, w, h)
  IN /\ (pc \in {"join", "lock", "post"} \/ Returned) =>
          /\ Len(tiles) = CeilDiv(w, TileSz) * CeilDiv(h, TileSz)
          /\ { <<tiles[k].tx, tiles[k].ty>> : k \in 1..Len(tiles) }
               = (0..(CeilDiv(w, TileSz) - 1)) \X (0..(CeilDiv(h, TileSz) - 1))
          /\ \A k, j \in 1..Len(tiles) : k # j => rect(k) \cap rect(j) = {}
          /\ UNION { rect(k) : k \in 1..Len(tiles) } = (0..(w - 1)) \X (0..(h - 1))
     /\ \A k \in 1..Len(tiles) :
          /\ tiles[k].pc # "panicked"
          /\ tiles[k].pc \in {"computed", "locked", "done"} =>
               /\ { <<tiles[k].tile_colors[j][1], tiles[k].tile_colors[j][2]>> :
                      j \in 1..Len(tiles[k].tile_colors) } = rect(k)
               /\ Len(tiles[k].tile_colors) = Cardinality(rect(k))
     /\ ~hist.oob
     /\ \A i \in 1..Len(hist.writes) : hist.writes[i] <= 1
     /\ Returned => /\ Len(hist.writes) = w * h
                    /\ \A i \in 1..(w * h) : hist.writes[i] = 1

\* a frame of 33 x 33 pixels, four tiles of which three are clipped, has returned
C4_Witness ==
  /\ Returned
  /\ renderer.w = TileSz + 1 /\ renderer.h = TileSz + 1
  /\ Len(tiles) = 4
  /\ \A i \in 1..Len(fb) : hist.writes[i] = 1

\* C5: under fair scheduling of the main thread and of the tile threads,
\* every render_frame call that has started returns, and at its return every
\* pixel of the output image has been set by this call.
C5_FrameTerminatesAllPixelsSet ==
  (pc = "spawn") ~>
    (/\ Returned
     /\ \A k \in 1..Len(tiles) : terminated(tiles[k])
     /\ frame.joined = Len(tiles)
     /\ ~mutex.locked
     /\ Len(hist.set) = renderer.w * renderer.h
     /\ \A i \in 1..Len(hist.set) : hist.set[i])

\* a frame of two tiles, each of which took the lock, has returned with all
\* its pixels set
C5_Witness ==
  /\ Returned
  /\ Len(tiles) = 2 /\ frame.joined = 2
  /\ \A k \in 1..Len(tiles) : tiles[k].locks = 1
  /\ Len(hist.set) = TileSz + 1
  /\ \A i \in 1..Len(hist.set) : hist.set[i]

FramePcs == {"spawn", "join", "lock", "post"}

\* C6: from the call of render_frame to its return the renderer's fields do
\* not change; every spawned task holds copies of scene, camera, caches,
\* lights, sky flag, dimensions, spp and lighting equal to the renderer's at
\* the call, and they never change; a step of a task changes nothing but its
\* own record, the framebuffer and the lock.
C6_RendererUnchangedTasksOwnCopies ==
  /\ [](pc \in FramePcs =>
         /\ renderer = hist.at_call[1]
         /\ \A k \in 1..Len(tiles) :
              /\ tiles[k].S.scene = hist.at_call[1].scene
              /\ tiles[k].S.camera = hist.at_call[1].camera
              /\ tiles[k].S.tex_cache = hist.at_call[1].tex_cache
              /\ tiles[k].S.skybox_cache = hist.at_call[1].skybox_cache
              /\ tiles[k].S.lights = hist.at_call[1].lights
              /\ tiles[k].S.use_procedural_sky = hist.at_call[1].use_procedural_sky
              /\ tiles[k].L = Lighting(hist.time)
              /\ tiles[k].w = hist.at_call[1].w /\ tiles[k].h = hist.at_call[1].h
              /\ tiles[k].spp = hist.at_call[1].spp)
  /\ [][(pc \in FramePcs \/ pc' = "spawn") => renderer' = renderer]_vars
  /\ [][\A k \in 1..Len(tiles) :
          (Len(tiles') >= k /\ tiles'[k] # tiles[k]) =>
            /\ tiles'[k].S = tiles[k].S /\ tiles'[k].L = tiles[k].L
            /\ \A j \in 1..Len(tiles) : j # k => tiles'[j] = tiles[j]
            /\ renderer' = renderer /\ img' = img /\ frame' = frame /\ pc' = pc]_vars

\* during a traced frame one task has written its tile while the other has
\* not started
C6_Witness ==
  /\ pc \in FramePcs
  /\ renderer.scene # <<>> /\ renderer.camera # <<>>
  /\ Len(tiles) = 2
  /\ tiles[1].pc = "run" /\ tiles[2].pc = "done"
  /\ \E i \in 1..Len(fb) : fb[i] # VZero

\* C7: when render_frame has returned, no tile task of the frame has failed
\* and every pixel of the frame was written by a task and set in the image;
\* a scene with a material index out of range never reaches a tile task.
C7_FullOutputOrAbort ==
  /\ Returned =>
       /\ \A k \in 1..Len(tiles) : tiles[k].pc = "done" /\ tiles[k].locks = 1
       /\ Len(hist.writes) = renderer.w * renderer.h
       /\ \A i \in 1..Len(hist.writes) : hist.writes[i] >= 1 /\ hist.set[i]
  /\ \A k \in 1..Len(tiles) :
       /\ tiles[k].pc # "panicked"
       /\ tiles[k].S.scene # <<>> => first_bad_voxel(tiles[k].S.scene[1], 1) = 0
  /\ renderer.scene # <<>> => first_bad_voxel(renderer.scene[1], 1) = 0

\* a frame traced with at least one sample per pixel has returned, every
\* pixel written once
C7_Witness ==
  /\ Returned
  /\ hist.at_call[1].scene # <<>> /\ hist.at_call[1].camera # <<>>
  /\ hist.at_call[1].spp > 0
  /\ \A k \in 1..Len(tiles) : tiles[k].pc = "done"
  /\ \A i \in 1..Len(hist.writes) : hist.writes[i] = 1
  /\ \E i \in 1..Len(fb) : fb[i] # VZero

\* C8: between two render_frame calls no tile task takes a step and neither
\* the framebuffer nor the image changes; after every return all tasks of the
\* frame have terminated, the lock is free, and every pixel of the image is
\* the encoded value of a framebuffer entry written during this frame, so no
\* pixel keeps the value it had before the call.
C8_NoCarryOverBetweenFrames ==
  /\ [](Returned =>
         /\ \A k \in 1..Len(tiles) : terminated(tiles[k]) /\ tiles[k].pc # "locked"
         /\ ~mutex.locked /\ frame.joined = Len(tiles)
         /\ Len(img.data) = Len(fb)
         /\ \A i \in 1..Len(img.data) :
              /\ hist.set[i] /\ hist.writes[i] >= 1
              /\ img.data[i] = post_color(fb[i]))
  /\ [][(pc = "idle" /\ pc' = "idle") => (tiles' = tiles /\ fb' = fb /\ img' = img)]_vars
  /\ [][(pc = "idle" /\ pc' = "spawn") =>
          (tiles' = <<>> /\ fb' = ZeroColors(renderer.w * renderer.h))]_vars

\* after a camera change a second frame has returned with an image that
\* differs from the first frame's
C8_Witness ==
  /\ Returned
  /\ hist.frames >= 2
  /\ hist.at_call[1].camera # <<>>
  /\ img.data # hist.img_before[1]
  /\ \E i \in 1..Len(hist.img_before[1]) : hist.img_before[1][i] # VZero

InRange01(c) == \A n \in 1..3 : c[n] \in 0..FP

\* C9 as stated: every stored channel is in [0,1]; zero maps to zero, large
\* channels to at most 1, the undefined value stays in range, and every
\* negative channel maps to 0.
C9_AsStated ==
  Returned =>
    \A i \in 1..Len(img.data) :
      /\ InRange01(img.data[i])
      /\ \A n \in 1..3 : fb[i][n] = 0 => img.data[i][n] = 0
      /\ \A n \in 1..3 : fb[i][n] < 0 => img.data[i][n] = 0

\* C9 (amended): every channel stored into the image is in [0,1] whatever the
\* framebuffer channel is: zero maps to zero, the undefined value and the
\* infinities map to zero, large finite channels to at most 1, and negative
\* channels stay in [0,1] without all being mapped to 0 (-1.0 is stored as 1.0).
C9_OutputInUnitRange ==
  Returned =>
    \A i \in 1..Len(img.data) :
      /\ InRange01(img.data[i])
      /\ \A n \in 1..3 :
           /\ fb[i][n] = 0 => img.data[i][n] = 0
           /\ ~IsFinite(fb[i][n]) => img.data[i][n] = 0
           /\ fb[i][n] = -100 => img.data[i][n] = FP

\* a pixel with a negative, an undefined and a large channel has been stored
C9_Witness ==
  /\ Returned
  /\ fb[1] = <<-100, NaN, 10000>>
  /\ img.data[1][1] = FP /\ img.data[1][2] = 0 /\ img.data[1][3] > 0

\* the sum of spp evaluations of the sample colour c, divided by spp
MeanOfSamples(c, spp) ==
  <<div_spp(spp * c[1], spp), div_spp(spp * c[2], spp), div_spp(spp * c[3], spp)>>

\* the colour a tile task hands over for pixel (x, y): the plain mean of its
\* spp sample colours, or the sky gradient when nothing is bound
RawPixel(t, x, y) ==
  IF t.S.scene = <<>> \/ t.S.camera = <<>> THEN sky_gradient(y, t.h, t.L.sky_color)
  ELSE IF t.spp = 0 THEN MeanOfSamples(VZero, 0)
  ELSE MeanOfSamples(sample_color(t, x, y), t.spp)

\* C10: what a tile task computes and writes for a pixel is the plain mean of
\* the pixel's spp sample colours, neither tone mapped nor gamma encoded; the
\* main thread's drain applies tone mapping and then gamma encoding to each
\* framebuffer entry, once, and nothing else changes the image.
C10_ToneMapOncePerPixelAfterAveraging ==
  /\ [][\A k \in 1..Len(tiles) :
          (Len(tiles') >= k /\ tiles[k].pc = "run" /\ tiles'[k].pc = "computed") =>
            \A j \in 1..Len(tiles'[k].tile_colors) :
              tiles'[k].tile_colors[j][3] =
                RawPixel(tiles[k], tiles'[k].tile_colors[j][1], tiles'[k].tile_colors[j][2])]_vars
  /\ [][\A k \in 1..Len(tiles) :
          (Len(tiles') >= k /\ tiles[k].pc = "locked" /\ tiles'[k].pc = "done") =>
            \A j \in 1..Len(tiles[k].tile_colors) :
              fb'[fb_index(tiles[k], tiles[k].tile_colors[j][1], tiles[k].tile_colors[j][2]) + 1]
                = tiles[k].tile_colors[j][3]]_vars
  /\ [][img' # img =>
          /\ pc = "post" /\ pc' = "idle"
          /\ \A i \in 1..Len(img'.data) : img'.data[i] = gamma22(tonemap_aces(fb[i]))]_vars

\* a traced frame with two samples per pixel has returned, and a pixel of it
\* is stored with a value other than its framebuffer entry
C10_Witness ==
  /\ Returned
  /\ hist.at_call[1].scene # <<>> /\ hist.at_call[1].camera # <<>>
  /\ hist.at_call[1].spp = 2
  /\ \E i \in 1..Len(fb) : fb[i] # VZero /\ img.data[i] # fb[i]

\* the voxels of a scene whose material has a non-zero emissive colour
EmissiveVoxels(scene) ==
  SelectSeq(scene.voxels, LAMBDA v : scene.materials[v.mat_id + 1].emissive # VZero)

\* C11: between calls and during frames, the derived lights are, in voxel
\* order, one light per voxel of the bound scene with a non-zero emissive
\* colour, at the voxel centre, with intensity 1 and that colour, and the
\* texture cache has one entry per material of the bound scene; with no scene
\* bound both are empty.
C11_LightsAndCachesOfBoundScene ==
  pc # "aborted" =>
    IF renderer.scene = <<>>
      THEN renderer.lights = <<>> /\ renderer.tex_cache = <<>>
      ELSE LET sc == renderer.scene[1]
               em == EmissiveVoxels(sc)
           IN /\ Len(renderer.lights) = Len(em)
              /\ \A j \in 1..Len(em) :
                   /\ VAdd(renderer.lights[j].pos, renderer.lights[j].pos)
                        = VAdd(em[j].min, em[j].max)
                   /\ renderer.lights[j].color = sc.materials[em[j].mat_id + 1].emissive
                   /\ renderer.lights[j].intensity = FP
              /\ Len(renderer.tex_cache) = Len(sc.materials)
              /\ Len(renderer.skybox_cache) = 6

\* a frame was rendered with one scene bound, then another scene with three
\* emissive voxels was bound
C11_Witness ==
  /\ pc = "idle"
  /\ hist.frames >= 1 /\ hist.at_call[1].scene = <<GoodScene>>
  /\ renderer.scene = <<LampScene>>
  /\ Len(renderer.lights) = 3

\* the call of op has returned
Called(op) == probe.op = op /\ probe.out # <<>>

\* the voxels of a list a ray enters at a distance strictly between its
\* tmin and tmax
EnteredVoxels(ray, voxels) ==
  { i \in 1..Len(voxels) :
      LET e == ray_box_intersect(ray, voxels[i].min, voxels[i].max, ray.tmax)
      IN e # <<>> /\ e[1][1] > ray.tmin /\ e[1][1] < ray.tmax }
EntryDistance(ray, v) == ray_box_intersect(ray, v.min, v.max, ray.tmax)[1][1]

\* C12: trace_voxels returns no hit when the ray enters no voxel at a
\* distance strictly between tmin and tmax; otherwise it returns the voxel
\* with the least entry distance, the earliest in the list among equals, with
\* the hit point origin + direction * t0 and that voxel's material and corners.
C12_TraceReturnsNearestFirst ==
  Called("trace_voxels") =>
    LET ray == probe.args[1]
        voxels == probe.args[2]
        hit == probe.out[1]
        E == EnteredVoxels(ray, voxels)
    IN IF E = {} THEN hit = <<>>
       ELSE /\ hit # <<>>
            /\ \E i \in E :
                 /\ \A j \in E : EntryDistance(ray, voxels[i]) <= EntryDistance(ray, voxels[j])
                 /\ \A j \in E : EntryDistance(ray, voxels[j]) = EntryDistance(ray, voxels[i])
                                    => i <= j
                 /\ hit[1].t = EntryDistance(ray, voxels[i])
                 /\ hit[1].p = VAdd(ray.o, VScale(ray.d, hit[1].t))
                 /\ hit[1].mat_id = voxels[i].mat_id
                 /\ hit[1].vmin = voxels[i].min /\ hit[1].vmax = voxels[i].max

\* a ray that enters three boxes, two of them at the same distance, has
\* been traced and the earlier of the two was returned
C12_Witness ==
  /\ Called("trace_voxels")
  /\ Cardinality(EnteredVoxels(probe.args[1], probe.args[2])) = 3
  /\ probe.args[2][2].mat_id = 2 /\ probe.args[2][3].mat_id = 0
  /\ probe.out[1] # <<>> /\ probe.out[1][1].mat_id = 2

\* the ray runs along axis k
AlongAxis(ray, k) == ray.d[k] # 0 /\ \A j \in (1..3) \ {k} : ray.d[j] = 0

FaceNormals == << Vec3(-100, 0, 0), Vec3(100, 0, 0), Vec3(0, -100, 0),
                  Vec3(0, 100, 0), Vec3(0, 0, -100), Vec3(0, 0, 100) >>
FaceDistances(p, bmin, bmax) ==
  << Abs(p[1] - bmin[1]), Abs(p[1] - bmax[1]), Abs(p[2] - bmin[2]),
     Abs(p[2] - bmax[2]), Abs(p[3] - bmin[3]), Abs(p[3] - bmax[3]) >>

\* C14: voxel_normal_at returns one of the six axis unit vectors, that of
\* the face nearest the point; among equally near faces the first in the
\* order -x, +x, -y, +y, -z, +z.
C14_NormalOfNearestFaceFirstWins ==
  Called("voxel_normal_at") =>
    LET D == FaceDistances(probe.args[1], probe.args[2], probe.args[3])
    IN \E i \in 1..6 :
         /\ \A j \in 1..6 : D[i] <= D[j]
         /\ \A j \in 1..(i - 1) : D[j] > D[i]
         /\ probe.out[1] = FaceNormals[i]

\* the normal has been taken at a point equally near the +y, -z and +z
\* faces and nearer to them than to the others; +y was returned
C14_Witness ==
  /\ Called("voxel_normal_at")
  /\ LET D == FaceDistances(probe.args[1], probe.args[2], probe.args[3])
     IN D[4] = D[5] /\ D[5] = D[6] /\ D[1] > D[4] /\ D[2] > D[4] /\ D[3] > D[4]
  /\ probe.out[1] = Vec3(0, 100, 0)

\* vectors a voxel and its hit point are moved by
Translations == { Vec3(50, 0, 0), Vec3(0, 100, 0), Vec3(30, -20, 10), Vec3(-100, -100, -100) }

\* C15: voxel_uv projects the hit point onto the two axes orthogonal to the
\* dominant normal axis, offset by the voxel's min corner: moving the voxel
\* together with the hit point by any vector leaves (u, v) unchanged.
C15_UVUnchangedByTranslation ==
  Called("voxel_uv") =>
    \A s \in Translations :
      voxel_uv(VAdd(probe.args[1], s), VAdd(probe.args[2], s), VAdd(probe.args[3], s),
               probe.args[4]) = probe.out[1]

\* the hit of the sampled ray, and the colour the same hit gets when the
\* renderer holds no derived light
SampleHit == trace_voxels(probe.args[3], probe.args[1].scene.voxels)
ColourWithoutLights ==
  shade_hit([probe.args[1] EXCEPT !.lights = <<>>], probe.args[2], probe.args[3], SampleHit[1])

\* C16: with one emissive voxel beside one plain voxel, a hit on a face of
\* the plain voxel that faces the emissive voxel within the 10-unit light
\* range gets a strictly positive point-light term: its colour is strictly
\* greater than the colour of the same hit without the point-light term.
C16_NeighbourOfEmissiveVoxelIsLit ==
  ( /\ Called("sample")
    /\ probe.args[1].scene = PairScene
    /\ SampleHit # <<>>
    /\ SampleHit[1].mat_id = 0
    /\ LET to_l == VSub(probe.args[1].lights[1].pos, SampleHit[1].p)
       IN dot(SampleHit[1].n, to_l) > 0 /\ length(to_l) < 10 * FP )
  => \E ch \in 1..3 : probe.out[1][ch] > ColourWithoutLights[ch]

\* the material of the sampled ray's hit
HitMaterial == probe.args[1].scene.materials[SampleHit[1].mat_id + 1]

\* C17: the colour of a hit on a voxel whose material has the emissive
\* colour E contains E added directly: every channel of the sample colour
\* is at least the corresponding channel of E.
C17_EmissiveColourAddedToHit ==
  (Called("sample") /\ SampleHit # <<>> /\ IsEmissive(HitMaterial))
  => \A ch \in 1..3 : probe.out[1][ch] >= HitMaterial.emissive[ch]

\* the clamped, texture-modulated albedo of the sampled ray's hit
HitAlbedo == hit_albedo(probe.args[1], probe.args[2], SampleHit[1])

\* C18: each channel of the colour of a hit sample is at least
\* ambient_level(t) * 0.3 * albedo in that channel, ambient_level(t) is
\* strictly positive for every t, and a hit whose albedo has a positive
\* channel is not shaded pure black.
C18_MinimumLightFloor ==
  Called("sample") =>
    /\ \A t \in 0..(2 * cycle_duration) : ambient_level(t) > 0
    /\ SampleHit # <<>> =>
         /\ \A ch \in 1..3 :
              probe.out[1][ch] >= fmul(HitAlbedo[ch], fmul(ambient_level(probe.args[2].time), 30))
         /\ (\E ch \in 1..3 : HitAlbedo[ch] > 0) => probe.out[1] # VZero

\* a textured box has been sampled where its texel is grey, and the colour
\* is no more than three times the floor
C18_Witness ==
  /\ Called("sample") /\ SampleHit # <<>>
  /\ probe.args[1].tex_cache[1] # <<>> /\ SampleHit[1].mat_id = 0
  /\ HitAlbedo # VZero /\ HitAlbedo # Vec3(72, 72, 74)
  /\ probe.out[1] # VZero
  /\ \A ch \in 1..3 :
       probe.out[1][ch] <= 3 * fmul(HitAlbedo[ch], fmul(probe.args[2].ambient_level, 30))

\* the probes of ao_term(p, n, voxels) that enter some voxel at a distance
\* strictly between the probe's tmin and 1
BlockedProbes(p, n, voxels) ==
  { i \in 1..5 :
      \E j \in 1..Len(voxels) :
        LET r == ao_ray(p, n, i)
            e == ray_box_intersect(r, voxels[j].min, voxels[j].max, FP)
        IN e # <<>> /\ e[1][1] > r.tmin /\ e[1][1] < FP }

\* C19: ao_term returns 1 - 0.35 * (k / 5), k being the number of its five
\* probes that enter some voxel at a distance strictly between the probe's
\* tmin and 1: a value in [0.65, 1], 1 when no probe is blocked, never the
\* clamp's lower bound 0.4 and never 0.
C19_AoFromBlockedProbes ==
  Called("ao_term") =>
    LET k == Cardinality(BlockedProbes(probe.args[1], probe.args[2], probe.args[3]))
    IN /\ 5 * (FP - probe.out[1]) = 35 * k
       /\ probe.out[1] >= 65 /\ probe.out[1] <= FP
       /\ (k = 0 => probe.out[1] = FP)
       /\ probe.out[1] # 40 /\ probe.out[1] # 0

\* ao_term has returned 0.79 on the top face under three near boxes and the
\* slab that lies more than one unit above
C19_Witness ==
  /\ Called("ao_term")
  /\ probe.args[2] = Vec3(0, 100, 0)
  /\ Len(probe.args[3]) = 5 /\ probe.args[3][5] = AoBlockers[6]
  /\ probe.out[1] = 79

\* the face of the sky cube a direction points at: 0 +x, 1 -x, 2 +y, 3 -y,
\* 4 +z, 5 -z, the x axis before y before z among equal components
DominantFace(d) ==
  IF Abs(d[1]) >= Abs(d[2]) /\ Abs(d[1]) >= Abs(d[3]) THEN (IF d[1] > 0 THEN 0 ELSE 1)
  ELSE IF Abs(d[2]) >= Abs(d[3]) THEN (IF d[2] > 0 THEN 2 ELSE 3)
  ELSE IF d[3] > 0 THEN 4 ELSE 5

\* the colours stored in a texture
Texels(tex) ==
  { Vec3((tex.data[3 * i + 1] * FP) \div 255, (tex.data[3 * i + 2] * FP) \div 255,
         (tex.data[3 * i + 3] * FP) \div 255) : i \in 0..(tex.w * tex.h - 1) }

\* C20: on a miss exactly one miss mode gives the sample's colour, chosen by
\* use_procedural_sky, which is true after Renderer::new: the procedural sky
\* if it is set; otherwise the texture of the cube face the ray direction
\* points at if that face is loaded, else the vertical gradient. The face
\* index is in 0..5 and every path yields a colour.
C20_OneMissMode ==
  /\ probe.op # "none" => renderer.use_procedural_sky
  /\ (Called("sample") /\ SampleHit = <<>>) =>
       LET S == probe.args[1]
           L == probe.args[2]
           ray == probe.args[3]
           f == DominantFace(ray.d)
           out == probe.out[1]
       IN /\ dir_to_cube_uv(ray.d)[1] \in 0..5
          /\ dir_to_cube_uv(ray.d)[1] = f
          /\ Len(out) = 3 /\ \A ch \in 1..3 : IsFinite(out[ch])
          /\ IF S.use_procedural_sky THEN out = procedural_sky(L, ray)
             ELSE IF S.skybox_cache[f + 1] # <<>>
               THEN out \in Texels(S.skybox_cache[f + 1][1])
             ELSE out = sky_gradient(probe.args[4], probe.args[5], L.sky_color)

\* with the procedural sky switched off and all six faces loaded, a ray
\* along -z has missed and got the colour of face 5
C20_Witness ==
  /\ Called("sample") /\ SampleHit = <<>>
  /\ ~probe.args[1].use_procedural_sky
  /\ \A i \in 1..6 : probe.args[1].skybox_cache[i] # <<>>
  /\ probe.args[3].d = Vec3(0, 0, -100)
  /\ probe.out[1] \in Texels(FaceTex(5))
  /\ probe.out[1] # procedural_sky(probe.args[2], probe.args[3])

\* C22: for three non-collinear points a, b, c compute_face_normal returns a
\* unit vector along (b - a) x (c - a), perpendicular to both edges; for
\* a = (0,0,0), b = (1,0,0), c = (0,1,0) it is the Z axis up to sign.
\* Lengths and dot products are compared up to two units of rounding.
C22_FaceNormalUnitAndPerpendicular ==
  Called("compute_face_normal") =>
    LET a == probe.args[1]
        e1 == VSub(probe.args[2], a)
        e2 == VSub(probe.args[3], a)
        cr == cross(e1, e2)
        n == probe.out[1]
    IN cr # VZero =>
         /\ Abs(length(n) - FP) <= 2
         /\ Abs(dot(n, e1)) * FP <= 2 * (length(e1) + FP)
         /\ Abs(dot(n, e2)) * FP <= 2 * (length(e2) + FP)
         /\ dot(n, cr) > 0
         /\ Abs(dot(n, cr) - length(cr)) * FP <= 2 * (length(cr) + FP)
         /\ (a = VZero /\ e1 = Vec3(100, 0, 0) /\ e2 = Vec3(0, 100, 0))
              => n \in { Vec3(0, 0, 100), Vec3(0, 0, -100) }

\* the normal of a triangle with edges (0, 3, 4) and (-1, 0, 2), away from
\* the origin, has been computed
C22_Witness ==
  /\ Called("compute_face_normal")
  /\ probe.args[1] # VZero
  /\ VSub(probe.args[2], probe.args[1]) = Vec3(0, 300, 400)
  /\ VSub(probe.args[3], probe.args[1]) = Vec3(-100, 0, 200)
  /\ Abs(length(probe.out[1]) - FP) <= 2
  /\ probe.out[1][1] # 0 /\ probe.out[1][2] # 0 /\ probe.out[1][3] # 0


\* C25: as a function of the elevation e, ambient_level is 0.06 below -0.2,
\* 0.06 + ((e + 0.2) / 0.2) * 0.10 from -0.2 up to 0, and 0.16 + 0.12 e
\* from 0 on (each within the rounding of one unit); it does not decrease
\* inside a region, and the pieces agree at e = -0.2 and at e = 0
C25_AmbientPiecewise ==
  Called("ambient_level_at") =>
    LET e == probe.args[1]
        a == probe.out[1]
    IN /\ e < -20 => a = 6
       /\ (e >= -20 /\ e < 0) => (2 * a - (12 + (e + 20)) \in -1..1)
       /\ e >= 0 => (FP * a - (16 * FP + 12 * e) \in -50..50)
       /\ (e > -FP /\ ~(e = -20) /\ ~(e = 0)) => ambient_level_at(e - 1) <= a
       /\ e = -20 => a = 6
       /\ e = 0 => (a = 16 /\ a = 6 + 10 /\ a - ambient_level_at(e - 1) \in 0..1)

C25_Witness ==
  /\ Called("ambient_level_at")
  /\ probe.args[1] = 0
  /\ probe.out[1] = 16

OutsideParallelAxes(ray, bmin, bmax) ==
  { k \in 1..3 : ray.d[k] = 0 /\ (ray.o[k] < bmin[k] \/ ray.o[k] > bmax[k]) }

\* C29: a ray with a zero direction component on an axis on which its origin
\* lies strictly outside the box's extent is reported as a miss by
\* ray_box_intersect, however small the gap
C29_ParallelRayOutsideMisses ==
  (Called("ray_beside_box")
     /\ OutsideParallelAxes(probe.args[1], probe.args[2], probe.args[3]) # {})
    => probe.out[1] = <<>>


\* the frame in flight, or the last one, was started with no scene or no
\* camera bound
FallbackFrame == frame # NoFrame /\ (frame.S.scene = <<>> \/ frame.S.camera = <<>>)

\* the colour the fallback path gives row y: the sky colour of the frame's
\* time, its red and green channels darkened by up to 30% towards the bottom row
FallbackRowColor(y) ==
  LET sky == sky_color(frame.time)
      v == fdiv(y * FP, Max2(renderer.h - 1, 1) * FP)
  IN Vec3(fmul(sky[1], FP - fmul(v, 30)), fmul(sky[2], FP - fmul(v, 30)), sky[3])

\* C27: a frame rendered before set_scene or set_camera was called takes the
\* fallback path in every tile: no tile fails on a traced hit, every pixel
\* pushed for row y is the sky colour of the frame's time with the vertical
\* gradient of row y whatever its x, and the call returns with these
\* colours post-processed into the image (the lock the main thread unwraps
\* is not poisoned)
C27_FallbackPathBeforeSetup ==
  FallbackFrame =>
    /\ ~mutex.poisoned
    /\ \A k \in 1..Len(tiles) :
         /\ tiles[k].pc # "panicked"
         /\ \A j \in 1..Len(tiles[k].tile_colors) :
              tiles[k].tile_colors[j][3] = FallbackRowColor(tiles[k].tile_colors[j][2])
    /\ pc = "idle" =>
         \A i \in 1..Len(img.data) :
           img.data[i] = post_color(FallbackRowColor((i - 1) \div img.w))

\* a finished fallback frame of several rows and columns whose first and
\* last rows differ
C27_Witness ==
  /\ FallbackFrame /\ pc = "idle"
  /\ img.w > TileSz /\ img.h > TileSz
  /\ img.data[1] = post_color(sky_color(frame.time))
  /\ img.data[1] # img.data[Len(img.data)]
  /\ img.data[Len(img.data)] = img.data[Len(img.data) - img.w + 1]


\* C28: the framebuffer mutex is never poisoned: every index y * w + x a
\* tile task is about to write or has written under the lock is below
\* w * h, no write ran out of bounds, every task that finished took the
\* lock once (none skipped its write on a lock error), and the main thread
\* finds the mutex unpoisoned when it locks it after the joins
C28_LockNeverPoisoned ==
  /\ ~mutex.poisoned
  /\ ~hist.oob
  /\ \A k \in 1..Len(tiles) :
       /\ \A j \in 1..Len(tiles[k].tile_colors) :
            tiles[k].tile_colors[j][2] * renderer.w + tiles[k].tile_colors[j][1]
              < renderer.w * renderer.h
       /\ tiles[k].pc = "done" => tiles[k].locks = 1
       /\ tiles[k].pc = "panicked" => tiles[k].locks = 0
  /\ pc = "post" => (mutex.locked /\ \A k \in 1..Len(tiles) : tiles[k].pc = "done")

\* the main thread holds the lock after four tiles, clipped on both axes,
\* have written under it
C28_Witness ==
  /\ pc = "post" /\ mutex.locked /\ ~mutex.poisoned
  /\ Len(tiles) = 4
  /\ renderer.w = TileSz + 1 /\ renderer.h = TileSz + 1
  /\ \A k \in 1..Len(tiles) : tiles[k].pc = "done" /\ tiles[k].locks = 1
  /\ \A i \in 1..Len(fb) : hist.writes[i] = 1


\* the scene with its triangle and portal lists emptied
WithoutMesh(scene) == [scene EXCEPT !.triangles = <<>>, !.portals = <<>>]

\* the renderer state set_scene leaves when it is given the scene of r
\* without its triangles and portals, everything else as in r
RendererWithoutMesh(r) ==
  [r EXCEPT !.scene = <<WithoutMesh(r.scene[1])>>,
            !.lights = derive_lights(WithoutMesh(r.scene[1]), 1)]

\* C26: the image render_frame returns for a bound scene is the image it
\* returns for the scene that differs from it only by having no triangles
\* and no portals, with the same camera, sky flag and time
C26_TrianglesAndPortalsIgnored ==
  (Returned /\ hist.at_call[1].scene # <<>>) =>
    /\ hist.at_call[1].lights = derive_lights(WithoutMesh(hist.at_call[1].scene[1]), 1)
    /\ img.data = SequentialRender(RendererWithoutMesh(hist.at_call[1]), hist.time)

\* a traced frame of a scene with a triangle and a portal has returned with
\* a pixel that shows a box
C26_Witness ==
  /\ Returned
  /\ hist.at_call[1].scene # <<>> /\ hist.at_call[1].camera # <<>>
  /\ hist.at_call[1].scene[1].triangles # <<>>
  /\ hist.at_call[1].scene[1].portals # <<>>
  /\ hist.at_call[1].spp > 0
  /\ LET t == FrameTask(hist.at_call[1], hist.time)
     IN primary_hit(t, 0, 0) # <<>>


\* the scene main has built
BuiltScene == driver.scene[1]

\* C21: when the model file cannot be opened, load_obj_triangles gives no
\* triangle: the scene main builds has an empty triangle list, set_scene
\* and the frames rendered from it do not fail
C21_MissingModelFileGivesNoTriangles ==
  (driver.at = "built" /\ driver.obj.open = <<>>) =>
    /\ BuiltScene.triangles = <<>>
    /\ pc # "aborted"
    /\ ~mutex.poisoned
    /\ \A k \in 1..Len(tiles) : tiles[k].pc # "panicked"
    /\ renderer.scene # <<>> => renderer.scene[1].triangles = <<>>

\* the driver has rendered its first frame with the model file missing
C21_Witness ==
  /\ driver.at = "built" /\ ~driver.obj.exists
  /\ Returned
  /\ renderer.scene = driver.scene
  /\ img.data[1] # VZero

\* C23: the house scene has voxels, and every voxel's material index is
\* below the number of its materials; set_scene does not fail on it and no
\* tile task fails shading it
C23_HouseSceneMaterialsInRange ==
  driver.at = "built" =>
    /\ BuiltScene.voxels # <<>>
    /\ \A i \in 1..Len(BuiltScene.voxels) :
         BuiltScene.voxels[i].mat_id < Len(BuiltScene.materials)
    /\ pc # "aborted"
    /\ \A k \in 1..Len(tiles) : tiles[k].pc # "panicked"

\* the house scene is bound, with its four emissive boxes as lights, and a
\* frame of it that hit a box has returned
C23_Witness ==
  /\ driver.at = "built" /\ Returned
  /\ renderer.scene = driver.scene
  /\ Len(BuiltScene.voxels) = 33 /\ Len(BuiltScene.materials) = 11
  /\ Len(renderer.lights) = 4
  /\ primary_hit(FrameTask(hist.at_call[1], hist.time), 0, 0) # <<>>

====
